---- MODULE Spec2Model ----
(***************************************************************************)
(* A model of slog-bugsnag: the slog.Handler middleware that forwards      *)
(* every log record to the next handler and hands records at or above the  *)
(* notify level to a pool of workers over a buffered channel               *)
(* (handler.go), and the sanitizer that renders arbitrary values for the   *)
(* bugsnag metadata tabs (metadata.go, log_to_bug.go).                     *)
(*                                                                         *)
(* Spec     the handler, its channel, its workers and Close, interleaved.  *)
(* SpecSan  the sanitizer and the metadata accumulation, as functions of   *)
(*          inputs drawn in the initial state.                             *)
(***************************************************************************)
EXTENDS Integers, Sequences, FiniteSets, TLC

\* ------------------------------------------------------------------------
\* Bounds of the model
\* ------------------------------------------------------------------------

\* Number of Handle calls the producer makes.
MaxCalls == 3

\* Capacity of bugsCh.  The code allocates 4000 slots (handler.go:103); the
\* model keeps the channel buffered and bounded, with a small capacity.
QueueCap == 1

\* Largest opts.MaxNotifierConcurrency, the number of workers
\* startNotifierWorkers spawns.
MaxWorkers == 2

\* ------------------------------------------------------------------------
\* slog levels
\* ------------------------------------------------------------------------

LevelInfo == 0

LevelWarn == 4

LevelError == 8

\* ------------------------------------------------------------------------
\* Variables
\* ------------------------------------------------------------------------

VARIABLES
    workerCount,   \* opts.MaxNotifierConcurrency as NewHandler passes it on
    notifyLevel,   \* h.notifyLevel.Level(): a Leveler, read on every Handle
    bugsCh,        \* h.bugsCh: the buffered bugRecords, oldest first
    chClosed,      \* whether close(h.bugsCh) has run
    closed,        \* h.closed, the atomic.Bool
    workerWG,      \* h.workerWG: the WaitGroup counter
    starterPc,     \* the goroutine `go h.startNotifierWorkers(n)` of NewHandler
    workerPc,      \* each worker goroutine: "unborn", "recv", "notify", "exited"
    workerBug,     \* the bugRecord a worker took and is handing to h.notify
    closePc,       \* the Close call: "idle", "stored", "chanClosed", "returned"
    prodPc,        \* the Handle call in progress: "idle", "send", "panicked"
    cur,           \* the locals of the Handle call in progress
    calls,         \* number of Handle calls begun
    nextGot,       \* what h.next.Handle received during the latest Handle call
    lastRet,       \* the latest Handle call that returned, and what it returned
    delivered,     \* per bugRecord id, how many times it was handed to h.notify
    accepted,      \* ids of the bugRecords the channel send accepted
    sanPc,         \* SpecSan: "input" to "again"; SpecBug: "deriving", "handled", "bug"; SpecGoa: "goa"
    sanIn,         \* SpecSan: the World drawn; SpecBug: the Event drawn
    sanOut         \* SpecSan, SpecBug: the results computed so far; SpecGoa: the handlers, nodes and arrays

dvars == <<workerCount, notifyLevel, bugsCh, chClosed, closed, workerWG, starterPc, workerPc, workerBug, closePc, prodPc, cur, calls, nextGot, lastRet, delivered, accepted>>

svars == <<sanPc, sanIn, sanOut>>

vars == <<dvars, svars>>

\* The worker goroutines startNotifierWorkers spawns.
Workers == 1..MaxWorkers

\* ------------------------------------------------------------------------
\* Attributes and the bound attribute chain (groupOrAttrs)
\* ------------------------------------------------------------------------

\* A slog.Attr is <<key, "v", value>> or, for a group, <<key, "g", attrs>>.
LeafAttr(k, v) == <<k, "v", v>>

GroupAttr(k, as) == <<k, "g", as>>

\* A node of the goa list: a group name, or a batch of attrs (group = "").
GoaGroup(name) == [group |-> name, attrs |-> <<>>]

GoaAttrs(as) == [group |-> "", attrs |-> as]

\* h.goa.WithGroup(name), h.goa.WithAttrs(attrs): a new list whose newest
\* node is the group or the batch, the list of h being its tail.
GoaWithGroup(goa, name) == <<GoaGroup(name)>> \o goa

GoaWithAttrs(goa, as) == <<GoaAttrs(as)>> \o goa

\* Value.isEmptyGroup of slog: a group without attrs.
IsEmptyGroup(a) == a[2] = "g" /\ a[3] = <<>>

\* The attrs without the empty groups among them.
RECURSIVE WithoutEmptyGroups(_)
WithoutEmptyGroups(as) ==
    IF as = <<>> THEN <<>>
    ELSE IF IsEmptyGroup(Head(as)) THEN WithoutEmptyGroups(Tail(as))
    ELSE <<Head(as)>> \o WithoutEmptyGroups(Tail(as))

\* slog.GroupValue(as...): the group of as, its empty groups removed.
GroupValue(as) == WithoutEmptyGroups(as)

\* A loop that puts a batch behind what has been collected.
RECURSIVE FlattenAppending(_, _)
FlattenAppending(goa, finalAttrs) ==
    IF goa = <<>> THEN finalAttrs
    ELSE LET g == Head(goa)
         IN IF g.group # ""
            THEN FlattenAppending(Tail(goa), <<GroupAttr(g.group, GroupValue(finalAttrs))>>)
            ELSE FlattenAppending(Tail(goa), finalAttrs \o g.attrs)

\* The loop of Handle over h.goa, newest node first: a group node wraps what
\* has been collected, an attrs node is prepended to it.
RECURSIVE Flatten(_, _)
Flatten(goa, finalAttrs) ==
    IF goa = <<>> THEN finalAttrs
    ELSE LET g == Head(goa)
         IN IF g.group # ""
            THEN Flatten(Tail(goa), <<GroupAttr(g.group, GroupValue(finalAttrs))>>)
            ELSE Flatten(Tail(goa), g.attrs \o finalAttrs)

\* The record Handle builds for the next handler; Record.AddAttrs leaves
\* out the empty groups.
NewRecord(r, finalAttrs) ==
    [time |-> r.time, level |-> r.level, msg |-> r.msg, pc |-> r.pc, attrs |-> WithoutEmptyGroups(finalAttrs)]

\* The condition with a strict comparison of the levels.
ShouldNotifyStrict(lvl, nl, isClosed) == lvl > nl /\ ~isClosed

\* The condition under which Handle puts the record on the channel.
ShouldNotify(lvl, nl, isClosed) == lvl >= nl /\ ~isClosed

\* The bugRecord Handle builds from the new record.
NewBug(id, newR, finalAttrs) ==
    [id |-> id, t |-> newR.time, lvl |-> newR.level, msg |-> newR.msg, pc |-> newR.pc, attrs |-> finalAttrs]

\* A send that waits for no room: the channel as an unbounded list.
CanSendAlways(ch) == Len(ch) >= 0

\* The send case of Handle's select is ready when the buffer has room;
\* otherwise the default case runs.
CanSend(ch) == Len(ch) < QueueCap

\* The record logBufferFull would pass if it named the attribute "msg".
BufferFullRecordRenamed(now, originalMsg, pc) ==
    [time |-> now, level |-> LevelError,
     msg |-> "slog-bugsnag bug buffer full; increase max concurrency or decrease bugs",
     pc |-> pc, attrs |-> <<LeafAttr("msg", originalMsg)>>]

\* The record logBufferFull passes to the next handler.
BufferFullRecord(now, originalMsg, pc) ==
    [time |-> now, level |-> LevelError,
     msg |-> "slog-bugsnag bug buffer full; increase max concurrency or decrease bugs",
     pc |-> pc, attrs |-> <<LeafAttr("original", originalMsg)>>]

\* ------------------------------------------------------------------------
\* Inputs
\* ------------------------------------------------------------------------

\* time.Now() in logBufferFull.
Clock == {100}

\* The goa lists of the handlers Handle is called on (newest node first):
\* the handler NewHandler returned, and the one derived from it by
\* WithGroup(""), WithAttrs(with1=arg0), WithGroup("group1").
RootGoa == <<>>

DerivedGoa == <<GoaGroup("group1"), GoaAttrs(<<LeafAttr("with1", "arg0")>>), GoaGroup("")>>

\* The Handle calls the logger makes: the record, and the handler's goa.
Inputs ==
    { [r |-> [time |-> 1, level |-> LevelError, msg |-> "db down", pc |-> 11, attrs |-> <<LeafAttr("main1", "arg0")>>],
       goa |-> DerivedGoa],
      [r |-> [time |-> 2, level |-> LevelWarn, msg |-> "slow", pc |-> 12, attrs |-> <<>>],
       goa |-> RootGoa],
      [r |-> [time |-> 3, level |-> LevelInfo, msg |-> "started", pc |-> 13, attrs |-> <<LeafAttr("main1", "arg0")>>],
       goa |-> DerivedGoa] }

\* What the next handler's Handle returns.
NextResults == {"nil", "err"}

NoCall == [id |-> 0]

\* ------------------------------------------------------------------------
\* Initial state: NewHandler has returned, its goroutine has not run yet
\* ------------------------------------------------------------------------

SanIdle ==
    /\ sanPc = "off"
    /\ sanIn = <<>>
    /\ sanOut = <<>>

Init ==
    /\ workerCount \in 1..MaxWorkers
    /\ notifyLevel \in {LevelError, LevelWarn}
    /\ bugsCh = <<>>
    /\ chClosed = FALSE
    /\ closed = FALSE
    /\ workerWG = 0
    /\ starterPc = "pending"
    /\ workerPc = [w \in Workers |-> "unborn"]
    /\ workerBug = [w \in Workers |-> NoCall]
    /\ closePc = "idle"
    /\ prodPc = "idle"
    /\ cur = NoCall
    /\ calls = 0
    /\ nextGot = <<>>
    /\ lastRet = NoCall
    /\ delivered = [id \in 1..MaxCalls |-> 0]
    /\ accepted = {}
    /\ SanIdle

\* ------------------------------------------------------------------------
\* Handle
\* ------------------------------------------------------------------------

\* h.next.Handle(ctx, rec) returning res, called by `via` ("Handle" or
\* "logBufferFull") during Handle call id.
NextHandle(log, id, via, rec, res) == Append(log, [call |-> id, via |-> via, rec |-> rec, res |-> res])

\* Handle returns ret: the call, how its record fared, and the value returned.
Returned(call, outcome, ret) == [id |-> call.id, call |-> call, outcome |-> outcome, ret |-> ret]

\* logBufferFull: the buffer-full record goes to the next handler, whose
\* result is dropped.
LogBufferFull(log, id, now, originalMsg, pc, dres) ==
    NextHandle(log, id, "logBufferFull", BufferFullRecord(now, originalMsg, pc), dres)

\* Handle up to the test of the level and of h.closed.  A record that is not
\* to be notified is passed to the next handler and Handle returns.
HandleCheck(r, goa, res) ==
    /\ prodPc = "idle"
    /\ calls < MaxCalls
    /\ calls' = calls + 1
    /\ LET id == calls + 1
           finalAttrs == Flatten(goa, r.attrs)
           newR == NewRecord(r, finalAttrs)
           offer == ShouldNotify(newR.level, notifyLevel, closed)
           call == [id |-> id, r |-> r, goa |-> goa, finalAttrs |-> finalAttrs, newR |-> newR,
                    nl |-> notifyLevel, sawClosed |-> closed, offered |-> offer]
       IN IF offer
          THEN /\ prodPc' = "send"
               /\ cur' = call
               /\ nextGot' = <<>>
               /\ UNCHANGED lastRet
          ELSE /\ nextGot' = NextHandle(<<>>, id, "Handle", newR, res)
               /\ lastRet' = Returned(call, "skipped", res)
               /\ UNCHANGED <<prodPc, cur>>
    /\ UNCHANGED <<workerCount, notifyLevel, bugsCh, chClosed, closed, workerWG, starterPc, workerPc, workerBug, closePc, delivered, accepted>>
    /\ UNCHANGED svars

\* The select of Handle: a send on a closed channel panics; a send the
\* buffer has room for proceeds; otherwise the default case runs
\* logBufferFull.  Then the record is passed to the next handler.
HandleSend(now, dres, res) ==
    /\ prodPc = "send"
    /\ LET bug == NewBug(cur.id, cur.newR, cur.finalAttrs)
       IN IF chClosed
          THEN /\ prodPc' = "panicked"
               /\ UNCHANGED <<cur, bugsCh, accepted, nextGot, lastRet>>
          ELSE /\ prodPc' = "idle"
               /\ cur' = NoCall
               /\ IF CanSend(bugsCh)
                  THEN /\ bugsCh' = Append(bugsCh, bug)
                       /\ accepted' = accepted \cup {bug.id}
                       /\ nextGot' = NextHandle(nextGot, cur.id, "Handle", cur.newR, res)
                       /\ lastRet' = Returned(cur, "enqueued", res)
                  ELSE /\ UNCHANGED <<bugsCh, accepted>>
                       /\ nextGot' = NextHandle(LogBufferFull(nextGot, cur.id, now, bug.msg, bug.pc, dres), cur.id, "Handle", cur.newR, res)
                       /\ lastRet' = Returned(cur, "rejected", res)
    /\ UNCHANGED <<workerCount, notifyLevel, chClosed, closed, workerWG, starterPc, workerPc, workerBug, closePc, calls, delivered>>
    /\ UNCHANGED svars

\* A LevelVar given as NotifyLevel is set to another level.
SetNotifyLevel(l) ==
    /\ notifyLevel # l
    /\ notifyLevel' = l
    /\ UNCHANGED <<workerCount, bugsCh, chClosed, closed, workerWG, starterPc, workerPc, workerBug, closePc, prodPc, cur, calls, nextGot, lastRet, delivered, accepted>>
    /\ UNCHANGED svars

\* ------------------------------------------------------------------------
\* startNotifierWorkers and the workers
\* ------------------------------------------------------------------------

\* The goroutine NewHandler launched runs: workerWG.Add(workerCount), and a
\* goroutine per worker.
StartNotifierWorkers ==
    /\ starterPc = "pending"
    /\ starterPc' = "done"
    /\ workerWG' = workerWG + workerCount
    /\ workerPc' = [w \in Workers |-> IF w <= workerCount THEN "recv" ELSE "unborn"]
    /\ UNCHANGED <<workerCount, notifyLevel, bugsCh, chClosed, closed, workerBug, closePc, prodPc, cur, calls, nextGot, lastRet, delivered, accepted>>
    /\ UNCHANGED svars

\* `for bug := range h.bugsCh`: take the oldest bugRecord; leave the loop,
\* and run the deferred workerWG.Done(), once the channel is closed and empty.
WorkerRecv(w) ==
    /\ workerPc[w] = "recv"
    /\ \/ /\ bugsCh # <<>>
          /\ workerBug' = [workerBug EXCEPT ![w] = Head(bugsCh)]
          /\ bugsCh' = Tail(bugsCh)
          /\ workerPc' = [workerPc EXCEPT ![w] = "notify"]
          /\ UNCHANGED workerWG
       \/ /\ bugsCh = <<>>
          /\ chClosed
          /\ workerPc' = [workerPc EXCEPT ![w] = "exited"]
          /\ workerWG' = workerWG - 1
          /\ UNCHANGED <<bugsCh, workerBug>>
    /\ UNCHANGED <<workerCount, notifyLevel, chClosed, closed, starterPc, closePc, prodPc, cur, calls, nextGot, lastRet, delivered, accepted>>
    /\ UNCHANGED svars

\* What h.notifier.NotifySync returns to h.notify.
NotifyResults == {"nil", "err"}

\* A worker that leaves its loop when NotifySync returns an error.
WorkerNotifyUntilError(w, res) ==
    /\ workerPc[w] = "notify"
    /\ delivered' = [delivered EXCEPT ![workerBug[w].id] = @ + 1]
    /\ workerBug' = [workerBug EXCEPT ![w] = NoCall]
    /\ workerPc' = [workerPc EXCEPT ![w] = IF res = "err" THEN "exited" ELSE "recv"]
    /\ workerWG' = IF res = "err" THEN workerWG - 1 ELSE workerWG
    /\ UNCHANGED <<workerCount, notifyLevel, bugsCh, chClosed, closed, starterPc, closePc, prodPc, cur, calls, nextGot, lastRet, accepted>>
    /\ UNCHANGED svars

\* h.notify returns: the bugRecord has been handed to NotifySync, whose
\* result res is dropped.
WorkerNotify(w, res) ==
    /\ workerPc[w] = "notify"
    /\ delivered' = [delivered EXCEPT ![workerBug[w].id] = @ + 1]
    /\ workerBug' = [workerBug EXCEPT ![w] = NoCall]
    /\ workerPc' = [workerPc EXCEPT ![w] = "recv"]
    /\ UNCHANGED <<workerCount, notifyLevel, bugsCh, chClosed, closed, workerWG, starterPc, closePc, prodPc, cur, calls, nextGot, lastRet, accepted>>
    /\ UNCHANGED svars

\* ------------------------------------------------------------------------
\* Close
\* ------------------------------------------------------------------------

\* h.closed.Store(true)
CloseStore ==
    /\ closePc = "idle"
    /\ closed' = TRUE
    /\ closePc' = "stored"
    /\ UNCHANGED <<workerCount, notifyLevel, bugsCh, chClosed, workerWG, starterPc, workerPc, workerBug, prodPc, cur, calls, nextGot, lastRet, delivered, accepted>>
    /\ UNCHANGED svars

\* close(h.bugsCh)
CloseChan ==
    /\ closePc = "stored"
    /\ chClosed' = TRUE
    /\ closePc' = "chanClosed"
    /\ UNCHANGED <<workerCount, notifyLevel, bugsCh, closed, workerWG, starterPc, workerPc, workerBug, prodPc, cur, calls, nextGot, lastRet, delivered, accepted>>
    /\ UNCHANGED svars

\* h.workerWG.Wait() returns once the counter is zero, and Close returns.
CloseWait ==
    /\ closePc = "chanClosed"
    /\ workerWG = 0
    /\ closePc' = "returned"
    /\ UNCHANGED <<workerCount, notifyLevel, bugsCh, chClosed, closed, workerWG, starterPc, workerPc, workerBug, prodPc, cur, calls, nextGot, lastRet, delivered, accepted>>
    /\ UNCHANGED svars

Next ==
    \/ \E in \in Inputs, res \in NextResults : HandleCheck(in.r, in.goa, res)
    \/ \E now \in Clock, dres \in NextResults, res \in NextResults : HandleSend(now, dres, res)
    \/ \E l \in {LevelError, LevelWarn} : SetNotifyLevel(l)
    \/ StartNotifierWorkers
    \/ \E w \in Workers : WorkerRecv(w)
    \/ \E w \in Workers, res \in NotifyResults : WorkerNotify(w, res)
    \/ CloseStore
    \/ CloseChan
    \/ CloseWait

Spec == Init /\ [][Next]_vars

\* ------------------------------------------------------------------------
\* Strings (metadata.go: strings.ToLower, strings.Contains)
\* ------------------------------------------------------------------------

Uppers == "ABCDEFGHIJKLMNOPQRSTUVWXYZ"

Lowers == "abcdefghijklmnopqrstuvwxyz"

\* The character of s at position i, as a string of length one.
CharAt(s, i) == SubSeq(s, i, i)

ToLowerChar(c) ==
    IF \E i \in 1..Len(Uppers) : CharAt(Uppers, i) = c
    THEN CharAt(Lowers, CHOOSE i \in 1..Len(Uppers) : CharAt(Uppers, i) = c)
    ELSE c

RECURSIVE ToLower(_)
ToLower(s) == IF s = "" THEN "" ELSE ToLowerChar(CharAt(s, 1)) \o ToLower(SubSeq(s, 2, Len(s)))

\* strings.Contains(s, substr)
Contains(s, substr) == \E i \in 0..(Len(s) - Len(substr)) : SubSeq(s, i + 1, i + Len(substr)) = substr

\* strings.Index(s, ","): the position of the first comma, 0 if there is none.
IndexComma(s) ==
    IF \E i \in 1..Len(s) : CharAt(s, i) = ","
    THEN CHOOSE i \in 1..Len(s) : CharAt(s, i) = "," /\ \A j \in 1..(i - 1) : CharAt(s, j) # ","
    ELSE 0

\* A key compared with a filter as written, without folding the case.
shouldRedactCaseSensitive(key, filters) == \E i \in 1..Len(filters) : Contains(key, filters[i])

\* shouldRedact: some filter, lower-cased, is a substring of the lower-cased key.
shouldRedact(key, filters) == \E i \in 1..Len(filters) : Contains(ToLower(key), ToLower(filters[i]))

\* parseTag: the name is the tag up to its first comma, the options the rest.
ParseTagName(tag) == IF IndexComma(tag) # 0 THEN SubSeq(tag, 1, IndexComma(tag) - 1) ELSE tag

ParseTagOpts(tag) == IF IndexComma(tag) # 0 THEN SubSeq(tag, IndexComma(tag) + 1, Len(tag)) ELSE ""

\* tagOptions.Contains: optionName is one of the comma-separated options.
RECURSIVE OptsContains(_, _)
OptsContains(opts, optionName) ==
    IF opts = "" THEN FALSE
    ELSE LET i == IndexComma(opts)
             first == IF i # 0 THEN SubSeq(opts, 1, i - 1) ELSE opts
             rest == IF i # 0 THEN SubSeq(opts, i + 1, Len(opts)) ELSE ""
         IN first = optionName \/ OptsContains(rest, optionName)

\* ------------------------------------------------------------------------
\* Values: a heap of nodes; a value is the address of its node
\* ------------------------------------------------------------------------

\* type and kind are those of reflect; impl names the interfaces of the type
\* switch of Sanitize that the type implements; val is the content of a
\* bool, number or string; elems are the addresses of the pointee (none:
\* nil pointer), of the elements, of the map values (by keys) or of the
\* field values (by fields).
Node(type, kind, impl, val, texts, elems, keys, fields) ==
    [type |-> type, kind |-> kind, impl |-> impl, val |-> val, texts |-> texts,
     elems |-> elems, keys |-> keys, fields |-> fields]

\* What the methods of a type return: Error(), Format(RFC3339Nano),
\* String(), MarshalText() and whether it fails, and whether
\* UnmarshalText(nil) fails.
Texts(e, t, s, m, mok, uok) == [error |-> e, time |-> t, string |-> s, marshal |-> m, marshalOk |-> mok, unmarshalOk |-> uok]

NoTexts == Texts("", "", "", "", FALSE, FALSE)

StringV(s) == Node("string", "string", {}, s, NoTexts, <<>>, <<>>, <<>>)

IntV(n) == Node("int", "int", {}, n, NoTexts, <<>>, <<>>, <<>>)

BoolV(b) == Node("bool", "bool", {}, b, NoTexts, <<>>, <<>>, <<>>)

NilV == Node("nil", "nil", {}, "", NoTexts, <<>>, <<>>, <<>>)

FuncV == Node("func()", "func", {}, "", NoTexts, <<>>, <<>>, <<>>)

ComplexV == Node("complex128", "complex128", {}, "(1+1i)", NoTexts, <<>>, <<>>, <<>>)

PtrV(type, elems) == Node(type, "ptr", {}, "", NoTexts, elems, <<>>, <<>>)

SliceV(elems) == Node("[]interface {}", "slice", {}, "", NoTexts, elems, <<>>, <<>>)

MapV(keys, elems) == Node("map[string]interface {}", "map", {}, "", NoTexts, elems, keys, <<>>)

Field(name, tag, exported) == [name |-> name, tag |-> tag, exported |-> exported]

StructV(type, fields, elems) == Node(type, "struct", {}, "", NoTexts, elems, <<>>, fields)

\* errors.New(msg)
ErrorV(msg) == Node("*errors.errorString", "ptr", {"error"}, msg, Texts(msg, "", "", "", FALSE, FALSE), <<>>, <<>>, <<>>)

\* A time.Time: also a Stringer and a TextMarshaler.
TimeV(rfc, str) == Node("time.Time", "struct", {"time", "stringer", "textmarshaler"}, rfc, Texts("", rfc, str, rfc, TRUE, FALSE), <<>>, <<>>, <<>>)

\* A time.Duration: an int64 with a String method.
DurationV(n, str) == Node("time.Duration", "int", {"stringer"}, n, Texts("", "", str, "", FALSE, FALSE), <<>>, <<>>, <<>>)

\* A struct{} with only MarshalText() ([]byte, error).
TextMarshalerV(type, text, ok) == Node(type, "struct", {"textmarshaler"}, "", Texts("", "", "", text, ok, FALSE), <<>>, <<>>, <<>>)

\* A string type with only UnmarshalText([]byte) error.
TextUnmarshalerV(type, s, ok) == Node(type, "string", {"textunmarshaler"}, s, Texts("", "", "", "", FALSE, ok), <<>>, <<>>, <<>>)

\* slogbugsnag.ID, Name, Email: string types with one Bugsnag... method.
UserStringV(type, impl, s) == Node(type, "string", {impl}, s, NoTexts, <<>>, <<>>, <<>>)

\* ------------------------------------------------------------------------
\* reflect.DeepEqual
\* ------------------------------------------------------------------------

\* The part of a node that is compared without following references.
Shallow(n) == [type |-> n.type, kind |-> n.kind, val |-> n.val, texts |-> n.texts, keys |-> {n.keys[i] : i \in 1..Len(n.keys)}, fields |-> n.fields, len |-> Len(n.elems)]

\* An equality that looks at the types only.
RECURSIVE DeepEqualTypeOnly(_, _, _, _)
DeepEqualTypeOnly(h, a, b, visited) == h[a].type = h[b].type

\* reflect.DeepEqual of the values at a and b.  Pointers to the same
\* pointee, and a map or slice with itself, are equal; a pair of references
\* under comparison is taken as equal when met again; funcs are never
\* equal; anything else is compared part by part.
RECURSIVE DeepEqual(_, _, _, _)
DeepEqual(h, a, b, visited) ==
    LET x == h[a]
        y == h[b]
        RefKind == x.kind \in {"ptr", "map", "slice"}
        SameRef == IF x.kind = "ptr" THEN x.elems # <<>> /\ x.elems = y.elems ELSE a = b
    IN IF x.type # y.type THEN FALSE
       ELSE IF x.kind = "func" THEN FALSE
       ELSE IF RefKind /\ SameRef THEN TRUE
       ELSE IF RefKind /\ <<a, b>> \in visited THEN TRUE
       ELSE /\ Shallow(x) = Shallow(y)
            /\ \A i \in 1..Len(x.elems) :
                LET j == IF x.kind = "map" THEN CHOOSE j \in 1..Len(y.keys) : y.keys[j] = x.keys[i] ELSE i
                IN DeepEqual(h, x.elems[i], y.elems[j], IF RefKind THEN visited \cup {<<a, b>>} ELSE visited)

\* ------------------------------------------------------------------------
\* Sanitize (metadata.go)
\* ------------------------------------------------------------------------

\* What Sanitize returns: a bool, number or string with its type; a
\* []any; a map[string]any.
OVal(type, v) == <<"val", type, v>>

OStr(s) == OVal("string", s)

OSeq(elems) == <<"seq", elems>>

OMap(m) == <<"map", m>>

\* Any bool, number or string taken for a string.
IsOVal(o) == o[1] = "val"

\* sanitized.(string): the value is of type string itself.
IsOStr(o) == o[1] = "val" /\ o[2] = "string"

\* ret[key] = val on a Go map.
MapPut(m, key, val) == [k \in (DOMAIN m) \cup {key} |-> IF k = key THEN val ELSE m[k]]

\* The keys of a Go map node in the order MapKeys returns them; the result
\* does not depend on the order, the keys of a map being distinct.
RECURSIVE Sanitize(_, _, _, _)
RECURSIVE SanitizeStructFrom(_, _, _, _, _, _)

\* A sanitizeMap that writes every key in lower case.
SanitizeMapLowerKeys(h, filters, seen, n) ==
    OMap([k \in {ToLower(n.keys[i]) : i \in 1..Len(n.keys)} |->
            LET i == CHOOSE i \in 1..Len(n.keys) : ToLower(n.keys[i]) = k
            IN IF shouldRedact(k, filters) THEN OStr("[FILTERED]") ELSE Sanitize(h, filters, seen, n.elems[i])])

\* sanitizeMap
SanitizeMap(h, filters, seen, n) ==
    OMap([k \in {n.keys[i] : i \in 1..Len(n.keys)} |->
            LET i == CHOOSE i \in 1..Len(n.keys) : n.keys[i] = k
            IN IF shouldRedact(k, filters) THEN OStr("[FILTERED]") ELSE Sanitize(h, filters, seen, n.elems[i])])

\* The field loop of sanitizeStruct from field i on, ret being the map so far.
SanitizeStructFrom(h, filters, seen, n, i, ret) ==
    IF i > Len(n.fields) THEN ret
    ELSE LET f == n.fields[i]
             name == IF f.tag # "" THEN ParseTagName(f.tag) ELSE f.name
             opts == IF f.tag # "" THEN ParseTagOpts(f.tag) ELSE ""
             sanitized == Sanitize(h, filters, seen, n.elems[i])
             next == IF ~f.exported THEN ret
                     ELSE IF shouldRedact(name, filters) THEN MapPut(ret, name, OStr("[FILTERED]"))
                     ELSE IF IsOStr(sanitized)
                          THEN IF ~(OptsContains(opts, "omitempty") /\ Len(sanitized[3]) = 0)
                               THEN MapPut(ret, name, sanitized)
                               ELSE ret
                          ELSE MapPut(ret, name, sanitized)
         IN SanitizeStructFrom(h, filters, seen, n, i + 1, next)

\* sanitizeStruct
SanitizeStruct(h, filters, seen, n) == OMap(SanitizeStructFrom(h, filters, seen, n, 1, <<>>))

\* sanitizer.Sanitize: s.Filters, s.Seen and data.
Sanitize(h, filters, seen, a) ==
    IF \E i \in 1..Len(seen) : DeepEqual(h, a, seen[i], {}) THEN OStr("[RECURSION]")
    ELSE LET n == h[a]
             seen2 == Append(seen, a)
         IN IF "error" \in n.impl THEN OStr(n.texts.error)
            ELSE IF "time" \in n.impl THEN OStr(n.texts.time)
            ELSE IF "stringer" \in n.impl THEN OStr(n.texts.string)
            ELSE IF "textunmarshaler" \in n.impl /\ n.texts.unmarshalOk THEN OStr("")
            ELSE IF n.kind = "nil" THEN OStr("<nil>")
            ELSE IF n.kind \in {"bool", "int", "string"} THEN OVal(n.type, n.val)
            ELSE IF n.kind = "ptr" THEN IF n.elems = <<>> THEN OStr("<nil>") ELSE Sanitize(h, filters, seen2, n.elems[1])
            ELSE IF n.kind = "slice" THEN OSeq([i \in 1..Len(n.elems) |-> Sanitize(h, filters, seen2, n.elems[i])])
            ELSE IF n.kind = "map" THEN SanitizeMap(h, filters, seen2, n)
            ELSE IF n.kind = "struct" THEN SanitizeStruct(h, filters, seen2, n)
            ELSE OStr("[" \o n.type \o "]")

\* ------------------------------------------------------------------------
\* accumulateRawData (log_to_bug.go)
\* ------------------------------------------------------------------------

\* bugsnag.MetaData.Add(tab, key, val)
MdAdd(md, tab, key, val) == MapPut(md, tab, MapPut(IF tab \in DOMAIN md THEN md[tab] ELSE <<>>, key, val))

NoUser == [Id |-> "", Name |-> "", Email |-> ""]

\* Nothing found yet: no error (address 0), the zero bugsnag.User, no tabs.
NoRawData == [err |-> 0, user |-> NoUser, md |-> <<>>]

\* A type switch in which an ID, Name or Email makes a new user.
FindErrorAndNewUser(h, acc, a) ==
    LET n == h[a]
    IN IF "error" \in n.impl THEN [acc EXCEPT !.err = a]
       ELSE IF n.type = "bugsnag.User"
            THEN [acc EXCEPT !.user = [Id |-> h[n.elems[1]].val, Name |-> h[n.elems[2]].val, Email |-> h[n.elems[3]].val]]
       ELSE IF "bugsnagUserID" \in n.impl THEN [acc EXCEPT !.user = [NoUser EXCEPT !.Id = n.val]]
       ELSE IF "bugsnagUserName" \in n.impl THEN [acc EXCEPT !.user = [NoUser EXCEPT !.Name = n.val]]
       ELSE IF "bugsnagUserEmail" \in n.impl THEN [acc EXCEPT !.user = [NoUser EXCEPT !.Email = n.val]]
       ELSE acc

\* A type switch in which a bugsnag.User sets the fields it has a value for.
FindErrorAndMergedUser(h, acc, a) ==
    LET n == h[a]
        or(new, old) == IF new = "" THEN old ELSE new
    IN IF "error" \in n.impl THEN [acc EXCEPT !.err = a]
       ELSE IF n.type = "bugsnag.User"
            THEN [acc EXCEPT !.user = [Id |-> or(h[n.elems[1]].val, @.Id), Name |-> or(h[n.elems[2]].val, @.Name),
                                       Email |-> or(h[n.elems[3]].val, @.Email)]]
       ELSE IF "bugsnagUserID" \in n.impl THEN [acc EXCEPT !.user.Id = n.val]
       ELSE IF "bugsnagUserName" \in n.impl THEN [acc EXCEPT !.user.Name = n.val]
       ELSE IF "bugsnagUserEmail" \in n.impl THEN [acc EXCEPT !.user.Email = n.val]
       ELSE acc

\* A type switch that keeps the first error it meets.
FindFirstErrorAndUser(h, acc, a) ==
    LET n == h[a]
    IN IF "error" \in n.impl THEN (IF acc.err = 0 THEN [acc EXCEPT !.err = a] ELSE acc)
       ELSE IF n.type = "bugsnag.User"
            THEN [acc EXCEPT !.user = [Id |-> h[n.elems[1]].val, Name |-> h[n.elems[2]].val, Email |-> h[n.elems[3]].val]]
       ELSE IF "bugsnagUserID" \in n.impl THEN [acc EXCEPT !.user.Id = n.val]
       ELSE IF "bugsnagUserName" \in n.impl THEN [acc EXCEPT !.user.Name = n.val]
       ELSE IF "bugsnagUserEmail" \in n.impl THEN [acc EXCEPT !.user.Email = n.val]
       ELSE acc

\* The type switch of accumulateRawData on attr.Value.Any().
FindErrorAndUser(h, acc, a) ==
    LET n == h[a]
    IN IF "error" \in n.impl THEN [acc EXCEPT !.err = a]
       ELSE IF n.type = "bugsnag.User"
            THEN [acc EXCEPT !.user = [Id |-> h[n.elems[1]].val, Name |-> h[n.elems[2]].val, Email |-> h[n.elems[3]].val]]
       ELSE IF "bugsnagUserID" \in n.impl THEN [acc EXCEPT !.user.Id = n.val]
       ELSE IF "bugsnagUserName" \in n.impl THEN [acc EXCEPT !.user.Name = n.val]
       ELSE IF "bugsnagUserEmail" \in n.impl THEN [acc EXCEPT !.user.Email = n.val]
       ELSE acc

\* accumulateRawData that keeps the attrs of a group in the tab of the
\* attrs around it.
RECURSIVE AccumulateRawDataInParentTab(_, _, _, _, _)
AccumulateRawDataInParentTab(h, filters, acc, tab, attrs) ==
    IF attrs = <<>> THEN acc
    ELSE LET attr == Head(attrs)
             found == FindErrorAndUser(h, acc, attr[3])
             next == IF attr[2] = "g" THEN AccumulateRawDataInParentTab(h, filters, acc, tab, attr[3])
                     ELSE IF shouldRedact(attr[1], filters)
                          THEN [found EXCEPT !.md = MdAdd(found.md, tab, attr[1], OStr("[FILTERED]"))]
                          ELSE [found EXCEPT !.md = MdAdd(found.md, tab, attr[1], Sanitize(h, filters, <<>>, attr[3]))]
         IN AccumulateRawDataInParentTab(h, filters, next, tab, Tail(attrs))

\* accumulateRawData that tests the filters before it looks at the value,
\* so that the value of a key that matches is not looked at.
RECURSIVE AccumulateRawDataRedactFirst(_, _, _, _, _)
AccumulateRawDataRedactFirst(h, filters, acc, tab, attrs) ==
    IF attrs = <<>> THEN acc
    ELSE LET attr == Head(attrs)
             found == FindErrorAndUser(h, acc, attr[3])
             next == IF attr[2] = "g" THEN AccumulateRawDataRedactFirst(h, filters, acc, attr[1], attr[3])
                     ELSE IF shouldRedact(attr[1], filters)
                          THEN [acc EXCEPT !.md = MdAdd(acc.md, tab, attr[1], OStr("[FILTERED]"))]
                          ELSE [found EXCEPT !.md = MdAdd(found.md, tab, attr[1], Sanitize(h, filters, <<>>, attr[3]))]
         IN AccumulateRawDataRedactFirst(h, filters, next, tab, Tail(attrs))

\* accumulateRawData over attrs, from the raw data found so far: a group
\* becomes its own tab; any other attr is looked at for an error or a user,
\* and put in the tab, redacted or sanitized.
RECURSIVE AccumulateRawData(_, _, _, _, _)
AccumulateRawData(h, filters, acc, tab, attrs) ==
    IF attrs = <<>> THEN acc
    ELSE LET attr == Head(attrs)
             found == FindErrorAndUser(h, acc, attr[3])
             next == IF attr[2] = "g" THEN AccumulateRawData(h, filters, acc, attr[1], attr[3])
                     ELSE IF shouldRedact(attr[1], filters)
                          THEN [found EXCEPT !.md = MdAdd(found.md, tab, attr[1], OStr("[FILTERED]"))]
                          ELSE [found EXCEPT !.md = MdAdd(found.md, tab, attr[1], Sanitize(h, filters, <<>>, attr[3]))]
         IN AccumulateRawData(h, filters, next, tab, Tail(attrs))

\* ------------------------------------------------------------------------
\* The values sanitized: Config.ParamsFilters, a heap, the value passed to
\* Sanitize and the attributes passed to accumulateRawData
\* ------------------------------------------------------------------------

World(heap, root, attrs, filters) == [heap |-> heap, root |-> root, attrs |-> attrs, filters |-> filters]

FilterSets == {<<>>, <<"password">>, <<"PASS", "card">>}

Keys == {"password", "PassWord", "pass", "name"}

\* One value of every branch of Sanitize.
LeafNodes ==
    {StringV(""), StringV("ohai"), IntV("7"), BoolV("true"), NilV, FuncV, ComplexV,
     PtrV("*int", <<>>),
     ErrorV("oh no"),
     TimeV("2023-09-29T13:00:59Z", "2023-09-29 13:00:59 +0000 UTC"),
     DurationV("1000000000", "1s"),
     TextMarshalerV("_textMarshaller", "marshalled text", TRUE),
     TextMarshalerV("_textMarshaller", "", FALSE),
     TextUnmarshalerV("_textUnmarshaller", "raw", TRUE),
     TextUnmarshalerV("_textUnmarshaller", "raw", FALSE),
     UserStringV("slogbugsnag.ID", "bugsnagUserID", "")}

LeafWorlds ==
    {World(<<n>>, 1, <<LeafAttr("value", 1), LeafAttr("password", 1)>>, f) : n \in LeafNodes, f \in FilterSets}

FieldNames == {"Password", "Id"}

\* A map of a string and a slice, the slice holding a map of a string and
\* a struct: every key is drawn from Keys, the field name from FieldNames.
NestedWorlds ==
    {World(<<MapV(<<k[1], k[2]>>, <<2, 3>>), StringV("secret"), SliceV(<<4, 2>>),
             MapV(<<k[2], k[1]>>, <<2, 5>>), StructV("_inner", <<Field(fn, "", TRUE)>>, <<2>>)>>,
           1, <<LeafAttr(k[1], 2), LeafAttr(k[2], 1), GroupAttr(k[2], <<LeafAttr(k[1], 3), LeafAttr(k[2], 2)>>)>>, f) :
        k \in {k \in Keys \X Keys : k[1] # k[2]}, fn \in FieldNames, f \in FilterSets}

FieldSpecs ==
    {Field("Email", "email", TRUE), Field("Password", "", TRUE), Field("Plain", "", TRUE),
     Field("Pw", "password,omitempty", TRUE), Field("Name", "name,omitempty", TRUE),
     Field("Opt", "opt,string,omitempty", TRUE), Field("NoName", ",omitempty", TRUE),
     Field("Dash", "-", TRUE), Field("secret", "secret", FALSE)}

SecondFieldSpecs == {Field("Other", "name", TRUE), Field("Last", "", TRUE), Field("hidden", "", FALSE)}

FieldNodes ==
    {StringV(""), StringV("x"), IntV("0"), PtrV("*int", <<>>),
     TextUnmarshalerV("_textUnmarshaller", "raw", TRUE), UserStringV("slogbugsnag.ID", "bugsnagUserID", ""),
     StructV("_empty", <<>>, <<>>)}

\* A struct of two fields.
StructWorlds ==
    {World(<<StructV("_account", <<f1, f2>>, <<2, 3>>), n1, n2>>, 1, <<LeafAttr("account", 1)>>, f) :
        f1 \in FieldSpecs, f2 \in SecondFieldSpecs, n1 \in FieldNodes, n2 \in {StringV(""), StringV("y")}, f \in FilterSets}

Broken(me, data) == StructV("_broken", <<Field("Me", "", TRUE), Field("Data", "", TRUE)>>, <<me, data>>)

\* Heaps with and without cycles; Sanitize is passed the first or second value.
CycleHeaps ==
    {<<Broken(2, 3), PtrV("*_broken", <<1>>), StringV("ohai")>>,
     <<Broken(2, 3), PtrV("*_broken", <<1>>), FuncV>>,
     <<MapV(<<"self", "data">>, <<1, 2>>), StringV("x")>>,
     <<SliceV(<<2, 1>>), StringV("x")>>,
     <<Broken(2, 5), PtrV("*_broken", <<3>>), Broken(4, 5), PtrV("*_broken", <<1>>), StringV("x")>>,
     <<Broken(2, 5), PtrV("*_broken", <<3>>), Broken(4, 6), PtrV("*_broken", <<1>>), StringV("x"), StringV("y")>>,
     <<SliceV(<<2, 2>>), MapV(<<"a">>, <<3>>), StringV("x")>>,
     <<SliceV(<<2, 3>>), MapV(<<"a">>, <<4>>), MapV(<<"a">>, <<4>>), StringV("x")>>,
     <<SliceV(<<2, 3>>), MapV(<<"a">>, <<4>>), SliceV(<<2>>), StringV("x")>>,
     <<MapV(<<"array", "broken">>, <<2, 3>>), SliceV(<<3, 4>>), Broken(4, 5), PtrV("*_broken", <<3>>), StringV("ohai")>>,
     <<MapV(<<"a">>, <<2>>), MapV(<<"a">>, <<3>>), MapV(<<"b">>, <<4>>), StringV("x")>>,
     <<SliceV(<<2, 3>>), SliceV(<<3, 3>>), StringV("x")>>}

CycleWorlds ==
    {World(c, r, <<LeafAttr("data", r), GroupAttr("group", <<LeafAttr("data", r)>>)>>, f) :
        c \in CycleHeaps, r \in 1..2, f \in {<<>>, <<"password">>}}

\* The bools, numbers and strings that Sanitize returns as they are.
PureLeafNodes ==
    {StringV(""), StringV("ohai"), IntV("7"), BoolV("true"),
     UserStringV("slogbugsnag.ID", "bugsnagUserID", "u1"), TextUnmarshalerV("_textUnmarshaller", "raw", FALSE)}

\* Values built only of bools, numbers, strings, slices and maps keyed by
\* strings: a map of a leaf and a slice, the slice holding a map, the leaf
\* and the same map again.
PureWorlds ==
    {World(<<MapV(<<k[1], k[2]>>, <<2, 3>>), n, SliceV(<<4, 2, 4>>), MapV(<<k[2], k[1]>>, <<2, 5>>), SliceV(<<>>)>>,
           r, <<LeafAttr(k[1], r)>>, f) :
        k \in {k \in Keys \X Keys : k[1] # k[2]}, n \in PureLeafNodes, r \in {1, 3}, f \in FilterSets}

Worlds == LeafWorlds \cup NestedWorlds \cup StructWorlds \cup CycleWorlds \cup PureWorlds

NoOutput == [val |-> <<"none">>, raw |-> NoRawData, again |-> <<"none">>]

\* ------------------------------------------------------------------------
\* SpecSan: Sanitize and accumulateRawData applied to every value of Worlds
\* ------------------------------------------------------------------------

InitSan ==
    /\ workerCount = 1
    /\ notifyLevel = LevelError
    /\ bugsCh = <<>>
    /\ chClosed = FALSE
    /\ closed = FALSE
    /\ workerWG = 0
    /\ starterPc = "pending"
    /\ workerPc = [w \in Workers |-> "unborn"]
    /\ workerBug = [w \in Workers |-> NoCall]
    /\ closePc = "idle"
    /\ prodPc = "idle"
    /\ cur = NoCall
    /\ calls = 0
    /\ nextGot = <<>>
    /\ lastRet = NoCall
    /\ delivered = [id \in 1..MaxCalls |-> 0]
    /\ accepted = {}
    /\ sanPc = "input"
    /\ sanIn \in Worlds
    /\ sanOut = NoOutput

\* san.Sanitize(data)
DoSanitize ==
    /\ sanPc = "input"
    /\ sanOut' = [sanOut EXCEPT !.val = Sanitize(sanIn.heap, sanIn.filters, <<>>, sanIn.root)]
    /\ sanPc' = "sanitized"
    /\ UNCHANGED <<dvars, sanIn>>

\* h.accumulateRawData(&errForBugsnag, &user, md, "log", attrs)
DoAccumulateRawData ==
    /\ sanPc = "sanitized"
    /\ sanOut' = [sanOut EXCEPT !.raw = AccumulateRawData(sanIn.heap, sanIn.filters, NoRawData, "log", sanIn.attrs)]
    /\ sanPc' = "done"
    /\ UNCHANGED <<dvars, sanIn>>

\* The elements of a set of strings, one after the other.
RECURSIVE KeySeq(_)
KeySeq(ks) == IF ks = {} THEN <<>> ELSE LET k == CHOOSE k \in ks : TRUE IN <<k>> \o KeySeq(ks \ {k})

\* A bool, number or string that Sanitize returned is the value it was
\* given, of the same type: a type whose UnmarshalText succeeds is never
\* returned.
ReturnedLeaf(type, v) ==
    IF type = "string" THEN StringV(v)
    ELSE IF type = "int" THEN IntV(v)
    ELSE IF type = "bool" THEN BoolV(v)
    ELSE IF type = "_textUnmarshaller" THEN TextUnmarshalerV(type, v, FALSE)
    ELSE UserStringV(type, "bugsnagUserID", v)

\* The heap h with the value out that Sanitize returned put at its end, a
\* []any or map[string]any after its elements, each one of its own.
RECURSIVE Store(_, _)
RECURSIVE StoreAll(_, _, _)
Store(h, out) ==
    IF out[1] = "seq" THEN LET r == StoreAll(h, out[2], <<>>) IN Append(r.heap, SliceV(r.addrs))
    ELSE IF out[1] = "map"
    THEN LET ks == KeySeq(DOMAIN out[2])
             r == StoreAll(h, [i \in 1..Len(ks) |-> out[2][ks[i]]], <<>>)
         IN Append(r.heap, MapV(ks, r.addrs))
    ELSE Append(h, ReturnedLeaf(out[2], out[3]))

StoreAll(h, outs, addrs) ==
    IF outs = <<>> THEN [heap |-> h, addrs |-> addrs]
    ELSE LET h2 == Store(h, Head(outs)) IN StoreAll(h2, Tail(outs), Append(addrs, Len(h2)))

\* san.Sanitize(san.Sanitize(data))
DoSanitizeAgain ==
    /\ sanPc = "done"
    /\ LET h == Store(<<>>, sanOut.val)
       IN sanOut' = [sanOut EXCEPT !.again = Sanitize(h, sanIn.filters, <<>>, Len(h))]
    /\ sanPc' = "again"
    /\ UNCHANGED <<dvars, sanIn>>

NextSan == DoSanitize \/ DoAccumulateRawData \/ DoSanitizeAgain

SpecSan == InitSan /\ [][NextSan]_vars

\* ------------------------------------------------------------------------
\* newErrorWithStack
\* ------------------------------------------------------------------------

\* bserrors.MaxStackDepth, the most frames runtime.Callers is asked for.
MaxStackDepth == 5

\* An error with a stack of its own: a *bserrors.Error, or a type with
\* Callers(), StackFrames() or StackTrace().
StackErrorV(type, impl, msg) == Node(type, "ptr", {"error"} \cup impl, msg, Texts(msg, "", "", "", FALSE, FALSE), <<>>, <<>>, <<>>)

\* An error value: the error at addr of the heap, or for addr = 0 the one
\* errors.New(msg) made; its message; and, for an errorWithCallers around
\* it, the stack of the wrapper.
ErrorValue(addr, msg, wrapped, stack) == [isNil |-> FALSE, addr |-> addr, msg |-> msg, wrapped |-> wrapped, stack |-> stack]

\* The nil error.
NilError == [isNil |-> TRUE, addr |-> 0, msg |-> "", wrapped |-> FALSE, stack |-> <<>>]

\* The error left nil.
KeptNil(h, err, msg) == IF err = 0 THEN NilError ELSE ErrorValue(err, h[err].texts.error, FALSE, <<>>)

\* errForBugsnag after `if errForBugsnag == nil { errForBugsnag = errors.New(msg) }`
NonNil(h, err, msg) == IF err = 0 THEN ErrorValue(0, msg, FALSE, <<>>) ELSE ErrorValue(err, h[err].texts.error, FALSE, <<>>)

\* A type switch that knows the *bserrors.Error only.
HasStackOfBugsnagOnly(n) == n.type = "*bserrors.Error"

\* The type switch of newErrorWithStack.
HasStack(n) ==
    n.type = "*bserrors.Error" \/ n.impl \cap {"withCallers", "withBSStackFrames", "withPStackTrace"} # {}

\* runtime.Callers(0, stack[:]) on a goroutine whose stack is callers,
\* innermost frame first.
Callers(callers) == SubSeq(callers, 1, IF Len(callers) < MaxStackDepth THEN Len(callers) ELSE MaxStackDepth)

\* A wrapper that keeps the frames after the one of pc.
ErrorWithCallersAfter(e, stack, idx) == ErrorValue(e.addr, e.msg, TRUE, SubSeq(stack, idx + 1, Len(stack)))

\* errorWithCallers{error: e, stack: stack[idx:]}
ErrorWithCallers(e, stack, idx) == ErrorValue(e.addr, e.msg, TRUE, SubSeq(stack, idx, Len(stack)))

\* newErrorWithStack(errForBugsnag, msg, pc), errForBugsnag being the error
\* at err of the heap or, for err = 0, nil.
NewErrorWithStack(h, err, msg, pc, callers) ==
    LET e == NonNil(h, err, msg)
        stack == Callers(callers)
    IN IF err # 0 /\ HasStack(h[err]) THEN e
       ELSE IF \E idx \in 1..Len(stack) : stack[idx] = pc
       THEN ErrorWithCallers(e, stack, CHOOSE idx \in 1..Len(stack) : stack[idx] = pc /\ \A j \in 1..(idx - 1) : stack[j] # pc)
       ELSE e

\* ------------------------------------------------------------------------
\* logToBug (log_to_bug.go)
\* ------------------------------------------------------------------------

Digits == "0123456789"

\* strconv.Itoa of a natural number.
RECURSIVE Itoa(_)
Itoa(n) == IF n < 10 THEN CharAt(Digits, n + 1) ELSE Itoa(n \div 10) \o CharAt(Digits, (n % 10) + 1)

\* t.Format(time.RFC3339Nano) of the time t seconds into 2023-09-29T13:00Z.
FormatTime(t) == "2023-09-29T13:00:" \o (IF t < 10 THEN "0" ELSE "") \o Itoa(t) \o "Z"

\* slog.Level.String(): the name of the level at or below l, and what l is
\* above it.
LevelString(l) ==
    LET str(base, val) == IF val = 0 THEN base ELSE IF val > 0 THEN base \o "+" \o Itoa(val) ELSE base \o "-" \o Itoa(0 - val)
    IN IF l < LevelInfo THEN str("DEBUG", l + 4)
       ELSE IF l < LevelWarn THEN str("INFO", l - LevelInfo)
       ELSE IF l < LevelError THEN str("WARN", l - LevelWarn)
       ELSE str("ERROR", l - LevelError)

\* The frame runtime.CallersFrames finds for pc: the zero Frame for a pc
\* that is no return address of the program.
FrameOf(pc) == IF pc = 0 THEN [function |-> "", line |-> 0] ELSE [function |-> "main.run", line |-> 100 + pc]

\* fmt.Sprintf("%s:%d", frame.Function, frame.Line)
SourceOf(pc) == FrameOf(pc).function \o ":" \o Itoa(FrameOf(pc).line)

\* bsSeverity
BsSeverity(lvl) == IF lvl < LevelWarn THEN "info" ELSE IF lvl < LevelError THEN "warning" ELSE "error"

\* opts.UnhandledLevel when nil: slog.LevelError + 4.
UnhandledLevel == LevelError + 4

\* logToBug with the fields of the record added before the attrs.
LogToBugRecordFirst(h, filters, t, lvl, msg, pc, attrs, callers) ==
    LET md1 == MdAdd(<<>>, "log", "time", OStr(FormatTime(t)))
        md2 == MdAdd(md1, "log", "level", OStr(LevelString(lvl)))
        md3 == MdAdd(md2, "log", "msg", OStr(msg))
        md4 == MdAdd(md3, "log", "source", OStr(SourceOf(pc)))
        found == AccumulateRawData(h, filters, [NoRawData EXCEPT !.md = md4], "log", attrs)
        user == found.user
        rawData == <<[is |-> "ctx"], [is |-> "Context", String |-> msg],
                     [is |-> "HandledState", Unhandled |-> (lvl >= UnhandledLevel)],
                     [is |-> "severity", severity |-> BsSeverity(lvl)],
                     [is |-> "MetaData", md |-> found.md]>>
    IN [err |-> NewErrorWithStack(h, found.err, msg, pc, callers),
        rawData |-> IF user.Id # "" \/ user.Name # "" \/ user.Email # ""
                    THEN Append(rawData, [is |-> "User", user |-> user])
                    ELSE rawData]

\* logToBug: the error, and the rawData in its order; the user is the
\* last of them when one of its fields is set.
LogToBug(h, filters, t, lvl, msg, pc, attrs, callers) ==
    LET found == AccumulateRawData(h, filters, NoRawData, "log", attrs)
        md1 == MdAdd(found.md, "log", "time", OStr(FormatTime(t)))
        md2 == MdAdd(md1, "log", "level", OStr(LevelString(lvl)))
        md3 == MdAdd(md2, "log", "msg", OStr(msg))
        md4 == MdAdd(md3, "log", "source", OStr(SourceOf(pc)))
        user == found.user
        rawData == <<[is |-> "ctx"], [is |-> "Context", String |-> msg],
                     [is |-> "HandledState", Unhandled |-> (lvl >= UnhandledLevel)],
                     [is |-> "severity", severity |-> BsSeverity(lvl)],
                     [is |-> "MetaData", md |-> md4]>>
    IN [err |-> NewErrorWithStack(h, found.err, msg, pc, callers),
        rawData |-> IF user.Id # "" \/ user.Name # "" \/ user.Email # ""
                    THEN Append(rawData, [is |-> "User", user |-> user])
                    ELSE rawData]

\* ------------------------------------------------------------------------
\* SpecBug: a handler derived by WithGroup and WithAttrs calls, one Handle
\* call on it, and logToBug on the attributes Handle collected
\* ------------------------------------------------------------------------

\* The most WithGroup and WithAttrs calls made before the Handle call.
MaxWiths == 3

\* The most attrs of a record.
MaxAttrs == 3

\* The sequences of at most n elements of S.
RECURSIVE SeqsUpTo(_, _)
SeqsUpTo(S, n) ==
    IF n = 0 THEN {<<>>}
    ELSE LET shorter == SeqsUpTo(S, n - 1)
         IN shorter \cup {Append(s, x) : s \in {q \in shorter : Len(q) = n - 1}, x \in S}

UserFields == <<Field("Id", "id,omitempty", TRUE), Field("Name", "name,omitempty", TRUE), Field("Email", "email,omitempty", TRUE)>>

\* The values the attrs of SpecBug hold: errors without and with a stack,
\* ID, Name and Email values, bugsnag.User structs and strings.
BugHeap ==
    <<ErrorV("boom"), ErrorV("bang"),
      StackErrorV("*bserrors.Error", {"withCallers", "withBSStackFrames"}, "bs error"),
      StackErrorV("*perrors.fundamental", {"withPStackTrace"}, "an error"),
      StackErrorV("_callersError", {"withCallers"}, "cs error"),
      StackErrorV("_framesError", {"withBSStackFrames"}, "fs error"),
      UserStringV("slogbugsnag.ID", "bugsnagUserID", "67890"),
      UserStringV("slogbugsnag.Name", "bugsnagUserName", "john"),
      UserStringV("slogbugsnag.Email", "bugsnagUserEmail", "j@a.com"),
      StructV("bugsnag.User", UserFields, <<11, 12, 12>>),
      StringV("12345"), StringV(""), StringV("v"),
      UserStringV("slogbugsnag.ID", "bugsnagUserID", ""),
      StructV("bugsnag.User", UserFields, <<12, 16, 12>>),
      StringV("ann"),
      UserStringV("slogbugsnag.Name", "bugsnagUserName", "")>>

\* One Handle call: the WithGroup and WithAttrs calls that made the
\* handler, oldest first, the record, Config.ParamsFilters and the stack
\* of the goroutine that runs logToBug, innermost frame first. The values
\* of the attrs are addresses of BugHeap.
Event(withs, attrs, t, lvl, msg, pc, callers, filters) ==
    [withs |-> withs, attrs |-> attrs, t |-> t, lvl |-> lvl, msg |-> msg, pc |-> pc,
     callers |-> callers, filters |-> filters]

CallWithGroup(name) == <<"WithGroup", name>>

CallWithAttrs(as) == <<"WithAttrs", as>>

WithCalls ==
    {CallWithGroup("g1"), CallWithGroup("g2"), CallWithGroup(""),
     CallWithAttrs(<<LeafAttr("w1", 13)>>), CallWithAttrs(<<GroupAttr("e", <<>>), LeafAttr("w2", 1)>>)}

\* The stacks runtime.Callers meets: the frame 7 of the log call below the
\* frames of the handler, twice, below more than MaxStackDepth frames,
\* innermost, or not at all.
Stacks ==
    {<<91, 92, 93, 7, 8, 9, 10>>, <<91, 92, 7, 8>>, <<91, 7, 8, 7, 9>>, <<91, 92, 93>>,
     <<91, 92, 93, 94, 95, 96, 97, 7, 8>>, <<7>>, <<7, 8>>}

LogCallers == <<91, 92, 93, 7, 8, 9, 10>>

\* Handlers of every derivation, records without and with attrs.
FlattenEvents ==
    {Event(w, a, 59, LevelError, "oh no", 7, LogCallers, <<>>) :
        w \in SeqsUpTo(WithCalls, MaxWiths),
        a \in {<<>>, <<LeafAttr("k", 13)>>, <<LeafAttr("err", 2), GroupAttr("g1", <<LeafAttr("myid", 7)>>)>>}}

\* Records without an error and with one of every kind, every stack, the
\* PC of the log call and a PC no frame has.
ErrorEvents ==
    {Event(<<>>, a, 59, LevelError, m, pc, c, <<>>) :
        a \in {<<>>} \cup {<<LeafAttr("err", e)>> : e \in 1..6}, m \in {"oh no", ""}, pc \in {0, 7, 8}, c \in Stacks}

\* Records of every level and of some times.
LevelEvents ==
    {Event(<<>>, <<>>, t, l, "oh no", 7, LogCallers, <<>>) : t \in {0, 9, 59}, l \in (0 - 8)..(LevelError + 5)}

AttrPool ==
    {LeafAttr("err", 1), LeafAttr("err", 2), LeafAttr("password", 2),
     LeafAttr("myid", 7), LeafAttr("myname", 8), LeafAttr("myemail", 9), LeafAttr("myuser", 10), LeafAttr("myuser", 15),
     GroupAttr("group1", <<LeafAttr("cause", 1), LeafAttr("myname", 17)>>)}

\* Records of the attrs that hold errors and users, "password" being a
\* filter.
AttrEvents ==
    {Event(<<>>, a, 59, LevelError, "oh no", 7, LogCallers, <<"password">>) : a \in SeqsUpTo(AttrPool, MaxAttrs)}

ReservedPool ==
    {LeafAttr("time", 13), LeafAttr("level", 13), LeafAttr("msg", 13), LeafAttr("source", 1),
     GroupAttr("log", <<LeafAttr("time", 13), LeafAttr("msg", 13)>>)}

\* Records with attrs of the keys logToBug sets, under the root and under
\* a group "log".
ReservedEvents ==
    {Event(w, a, 9, LevelWarn, "careful", pc, LogCallers, f) :
        w \in {<<>>, <<CallWithGroup("log")>>}, a \in SeqsUpTo(ReservedPool, 2), pc \in {0, 7},
        f \in {<<>>, <<"time">>}}

RedactedPool ==
    {LeafAttr("password", 2), LeafAttr("PassID", 7), LeafAttr("mypass", 8), LeafAttr("passuser", 10),
     LeafAttr("err", 1), LeafAttr("myuser", 15), LeafAttr("msg", 2),
     GroupAttr("group1", <<LeafAttr("pass", 9)>>)}

\* Records of attrs that hold an error or a user under a key that matches
\* a filter, "pass" and "msg" being the filters.
RedactedEvents ==
    {Event(<<>>, a, 59, LevelError, "oh no", 7, LogCallers, <<"pass", "msg">>) : a \in SeqsUpTo(RedactedPool, MaxAttrs)}

Events == FlattenEvents \cup ErrorEvents \cup LevelEvents \cup AttrEvents \cup ReservedEvents \cup RedactedEvents

NoGoa == <<>>

\* The zero bugRecord.
NoBug == [err |-> NilError, rawData |-> <<>>]

InitBug ==
    /\ workerCount = 1
    /\ notifyLevel = LevelError
    /\ bugsCh = <<>>
    /\ chClosed = FALSE
    /\ closed = FALSE
    /\ workerWG = 0
    /\ starterPc = "pending"
    /\ workerPc = [w \in Workers |-> "unborn"]
    /\ workerBug = [w \in Workers |-> NoCall]
    /\ closePc = "idle"
    /\ prodPc = "idle"
    /\ cur = NoCall
    /\ calls = 0
    /\ nextGot = <<>>
    /\ lastRet = NoCall
    /\ delivered = [id \in 1..MaxCalls |-> 0]
    /\ accepted = {}
    /\ sanPc = "deriving"
    /\ sanIn \in Events
    /\ sanOut = [goa |-> NoGoa, withs |-> 0, finalAttrs |-> <<>>, bug |-> NoBug]

\* h.WithGroup(name) or h.WithAttrs(attrs), on the handler the calls so
\* far derived.
DoWith ==
    /\ sanPc = "deriving"
    /\ sanOut.withs < Len(sanIn.withs)
    /\ LET call == sanIn.withs[sanOut.withs + 1]
       IN sanOut' = [sanOut EXCEPT !.withs = @ + 1,
                                   !.goa = IF call[1] = "WithGroup" THEN GoaWithGroup(@, call[2]) ELSE GoaWithAttrs(@, call[2])]
    /\ UNCHANGED <<dvars, sanPc, sanIn>>

\* Handle, up to the bugRecord: the attrs of the record and of h.goa.
DoHandle ==
    /\ sanPc = "deriving"
    /\ sanOut.withs = Len(sanIn.withs)
    /\ sanOut' = [sanOut EXCEPT !.finalAttrs = Flatten(sanOut.goa, sanIn.attrs)]
    /\ sanPc' = "handled"
    /\ UNCHANGED <<dvars, sanIn>>

\* h.logToBug(ctx, bug.t, bug.lvl, bug.msg, bug.pc, bug.attrs)
DoLogToBug ==
    /\ sanPc = "handled"
    /\ sanOut' = [sanOut EXCEPT !.bug = LogToBug(BugHeap, sanIn.filters, sanIn.t, sanIn.lvl, sanIn.msg, sanIn.pc,
                                                  sanOut.finalAttrs, sanIn.callers)]
    /\ sanPc' = "bug"
    /\ UNCHANGED <<dvars, sanIn>>

NextBug == DoWith \/ DoHandle \/ DoLogToBug

SpecBug == InitBug /\ [][NextBug]_vars

\* ------------------------------------------------------------------------
\* SpecGoa: the handlers WithGroup and WithAttrs derive, their goa lists
\* and the slices of Handle, as objects that share memory
\* ------------------------------------------------------------------------

\* The most WithGroup, WithAttrs and Handle calls of SpecGoa.
MaxOps == 4

\* A slice: the backing array (an index of arrays, 0 for none), len, cap.
Slice(arr, len, cap) == [arr |-> arr, len |-> len, cap |-> cap]

\* The zero slog.Attr, which fills the part of an array beyond len.
ZeroAttr == LeafAttr("", "")

\* The elements of a slice.
SliceContent(arrays, s) == IF s.len = 0 THEN <<>> ELSE SubSeq(arrays[s.arr], 1, s.len)

\* A new backing array of the elements and of spare places after them, and
\* the slice of the elements.
MakeSlice(arrays, elems, spare) ==
    [arrays |-> Append(arrays, elems \o [i \in 1..spare |-> ZeroAttr]),
     slice |-> Slice(Len(arrays) + 1, Len(elems), Len(elems) + spare)]

\* append(s, elems...): in place if the capacity of s allows it, in a new
\* backing array otherwise; s itself if there is nothing to append.
GoAppend(arrays, s, elems) ==
    IF elems = <<>> THEN [arrays |-> arrays, slice |-> s]
    ELSE IF s.len + Len(elems) <= s.cap
    THEN [arrays |-> [arrays EXCEPT ![s.arr] = [i \in DOMAIN @ |-> IF s.len < i /\ i <= s.len + Len(elems) THEN elems[i - s.len] ELSE @[i]]],
          slice |-> Slice(s.arr, s.len + Len(elems), s.cap)]
    ELSE [arrays |-> Append(arrays, SliceContent(arrays, s) \o elems),
          slice |-> Slice(Len(arrays) + 1, s.len + Len(elems), s.len + Len(elems))]

\* The slice as it is, with the capacity it has.
Unclipped(s) == s

\* slices.Clip(s): s[:len(s):len(s)]
Clip(s) == [s EXCEPT !.cap = s.len]

\* A groupOrAttrs: a group name or a slice of attrs, and the next node
\* (an index of nodes, 0 for nil).
GoaNode(group, attrs, next) == [group |-> group, attrs |-> attrs, next |-> next]

\* The loop of Handle over the nodes from g on, on the backing arrays.
RECURSIVE HandleLoop(_, _, _, _)
HandleLoop(nodes, arrays, g, finalAttrs) ==
    IF g = 0 THEN [arrays |-> arrays, slice |-> finalAttrs]
    ELSE IF nodes[g].group # ""
    THEN LET wrapped == MakeSlice(arrays, <<GroupAttr(nodes[g].group, GroupValue(SliceContent(arrays, finalAttrs)))>>, 0)
         IN HandleLoop(nodes, wrapped.arrays, nodes[g].next, wrapped.slice)
    ELSE LET joined == GoAppend(arrays, Clip(nodes[g].attrs), SliceContent(arrays, finalAttrs))
         IN HandleLoop(nodes, joined.arrays, nodes[g].next, joined.slice)

\* The list of a handler as Flatten takes it, newest node first.
RECURSIVE GoaOf(_, _, _)
GoaOf(nodes, arrays, g) ==
    IF g = 0 THEN <<>>
    ELSE <<[group |-> nodes[g].group, attrs |-> SliceContent(arrays, nodes[g].attrs)]>> \o GoaOf(nodes, arrays, nodes[g].next)

\* The slices of attrs the callers of WithAttrs pass: the attrs, and the
\* capacity beyond them.
BoundSlices == {[attrs |-> <<LeafAttr("w1", "a")>>, spare |-> 1], [attrs |-> <<LeafAttr("w2", "b"), LeafAttr("w3", "c")>>, spare |-> 0]}

BoundGroups == {"g1"}

\* The attrs of the records.
RecordAttrs == {<<>>, <<LeafAttr("k", "v")>>}

\* The handler NewHandler returns: no goa, and the one channel, WaitGroup
\* and atomic.Bool it made. Every handler is kept with the handler it was
\* derived from and the call that derived it.
NewHandler == [goa |-> 0, bugsCh |-> 1, workerWG |-> 1, closed |-> 1, parent |-> 0, call |-> <<>>]

\* h2 := *h, with the goa of the copy set to node.
CopyWithGoa(h, node, parent, call) == [h EXCEPT !.goa = node, !.parent = parent, !.call = call]

InitGoa ==
    /\ workerCount = 1
    /\ notifyLevel = LevelError
    /\ bugsCh = <<>>
    /\ chClosed = FALSE
    /\ closed = FALSE
    /\ workerWG = 0
    /\ starterPc = "pending"
    /\ workerPc = [w \in Workers |-> "unborn"]
    /\ workerBug = [w \in Workers |-> NoCall]
    /\ closePc = "idle"
    /\ prodPc = "idle"
    /\ cur = NoCall
    /\ calls = 0
    /\ nextGot = <<>>
    /\ lastRet = NoCall
    /\ delivered = [id \in 1..MaxCalls |-> 0]
    /\ accepted = {}
    /\ sanPc = "goa"
    /\ sanIn = <<>>
    /\ sanOut = [arrays |-> <<>>, nodes |-> <<>>, handlers |-> <<NewHandler>>, bugs |-> <<>>]

OpsDone == (Len(sanOut.handlers) - 1) + Len(sanOut.bugs)

\* h.WithGroup(name): a copy of h whose goa is a new node before the one
\* of h.
WithGroup(h, name) ==
    /\ sanPc = "goa"
    /\ OpsDone < MaxOps
    /\ sanOut' = [sanOut EXCEPT !.nodes = Append(@, GoaNode(name, Slice(0, 0, 0), sanOut.handlers[h].goa)),
                                !.handlers = Append(@, CopyWithGoa(sanOut.handlers[h], Len(sanOut.nodes) + 1, h, CallWithGroup(name)))]
    /\ UNCHANGED <<dvars, sanPc, sanIn>>

\* h.WithAttrs(attrs): a copy of h whose goa is a new node with the slice
\* of the caller.
WithAttrs(h, bound) ==
    /\ sanPc = "goa"
    /\ OpsDone < MaxOps
    /\ LET made == MakeSlice(sanOut.arrays, bound.attrs, bound.spare)
       IN sanOut' = [sanOut EXCEPT !.arrays = made.arrays,
                                   !.nodes = Append(@, GoaNode("", made.slice, sanOut.handlers[h].goa)),
                                   !.handlers = Append(@, CopyWithGoa(sanOut.handlers[h], Len(sanOut.nodes) + 1, h, CallWithAttrs(bound.attrs)))]
    /\ UNCHANGED <<dvars, sanPc, sanIn>>

\* h.Handle(ctx, r), up to the bugRecord: finalAttrs is made of the attrs
\* of the record and goes through the loop over h.goa.
HandleOn(h, attrs) ==
    /\ sanPc = "goa"
    /\ OpsDone < MaxOps
    /\ LET made == MakeSlice(sanOut.arrays, attrs, 0)
           looped == HandleLoop(sanOut.nodes, made.arrays, sanOut.handlers[h].goa, made.slice)
       IN sanOut' = [sanOut EXCEPT !.arrays = looped.arrays,
                                   !.bugs = Append(@, [h |-> h, attrs |-> attrs, finalAttrs |-> looped.slice])]
    /\ UNCHANGED <<dvars, sanPc, sanIn>>

NextGoa ==
    \/ \E h \in 1..Len(sanOut.handlers), name \in BoundGroups : WithGroup(h, name)
    \/ \E h \in 1..Len(sanOut.handlers), bound \in BoundSlices : WithAttrs(h, bound)
    \/ \E h \in 1..Len(sanOut.handlers), attrs \in RecordAttrs : HandleOn(h, attrs)

SpecGoa == InitGoa /\ [][NextGoa]_vars

\* ------------------------------------------------------------------------
\* Properties of the handler, its channel and its workers (Spec)
\* ------------------------------------------------------------------------

HandleSendStep == \E now \in Clock, dres \in NextResults, res \in NextResults : HandleSend(now, dres, res)

\* The latest Handle call has returned and nothing has been logged since.
LatestReturned == prodPc = "idle" /\ lastRet.id # 0

\* The positions in nextGot of the records that came through `via`.
GotVia(via) == {i \in 1..Len(nextGot) : nextGot[i].via = via}

BufferFullMsg == "slog-bugsnag bug buffer full; increase max concurrency or decrease bugs"

\* C1: once Close has returned, every bugRecord the channel accepted has
\* been handed to h.notify exactly once, and every worker that
\* startNotifierWorkers is to spawn has been spawned and has exited.
C1_CloseReturnsDrained ==
    closePc = "returned" =>
        /\ \A id \in accepted : delivered[id] = 1
        /\ starterPc = "done"
        /\ \A w \in 1..workerCount : workerPc[w] = "exited"

\* C2: the channel never holds more than its capacity; a Handle call at its
\* select can always take its step, whatever the workers are doing; and on
\* an open channel that step appends the bugRecord when there is room and
\* otherwise leaves the channel as it is and returns after the rejection.
C2_EnqueueNeverBlocks ==
    /\ [](Len(bugsCh) <= QueueCap)
    /\ [](prodPc = "send" => ENABLED HandleSendStep)
    /\ [][(prodPc = "send" /\ ~chClosed /\ prodPc' # prodPc) =>
            /\ prodPc' = "idle"
            /\ IF Len(bugsCh) < QueueCap
               THEN /\ bugsCh' = Append(bugsCh, NewBug(cur.id, cur.newR, cur.finalAttrs))
                    /\ lastRet'.outcome = "enqueued"
               ELSE /\ bugsCh' = bugsCh
                    /\ lastRet'.outcome = "rejected"]_vars

\* C2 witness: every worker is inside h.notify, the channel is full, and the
\* latest Handle call was rejected.
C2_Witness ==
    /\ starterPc = "done"
    /\ \A w \in 1..workerCount : workerPc[w] = "notify"
    /\ Len(bugsCh) = QueueCap
    /\ LatestReturned
    /\ lastRet.outcome = "rejected"

\* C3: Handle never sends on the channel after close(h.bugsCh): no Handle
\* call ends in the panic of a send on a closed channel.
C3_NoSendOnClosedChannel == prodPc # "panicked"

\* C4: a Handle call whose send found the channel full has passed the next
\* handler exactly one buffer-full record, before its own record: the fixed
\* message, level Error, and the one attribute original = the rejected
\* message.  Any other Handle call has passed no buffer-full record.  What
\* is appended to the channel is only ever the bugRecord of the call.
C4_BufferFullDiagnostic ==
    /\ [](LatestReturned =>
            IF lastRet.outcome = "rejected"
            THEN /\ Len(nextGot) = 2
                 /\ GotVia("logBufferFull") = {1}
                 /\ nextGot[1].rec.msg = BufferFullMsg
                 /\ nextGot[1].rec.level = LevelError
                 /\ nextGot[1].rec.attrs = <<LeafAttr("original", lastRet.call.r.msg)>>
                 /\ lastRet.id \notin accepted
            ELSE GotVia("logBufferFull") = {})
    /\ [](\A i \in 1..Len(bugsCh) : bugsCh[i].msg # BufferFullMsg)
    /\ [][Len(bugsCh') > Len(bugsCh) =>
            /\ prodPc = "send"
            /\ bugsCh' = Append(bugsCh, NewBug(cur.id, cur.newR, cur.finalAttrs))
            /\ GotVia("logBufferFull")' = {}]_vars

\* C4 witness: the latest Handle call was rejected and the buffer-full
\* record is with the next handler.
C4_Witness ==
    /\ LatestReturned
    /\ lastRet.outcome = "rejected"
    /\ GotVia("logBufferFull") # {}

\* C5: every Handle call that has ended has passed its record (time, level,
\* message, pc and the flattened attrs) to the next handler exactly once
\* and has returned what the next handler returned for it.
C5_HandleForwardsOnce ==
    /\ LatestReturned =>
        /\ \E i \in 1..Len(nextGot) :
            /\ GotVia("Handle") = {i}
            /\ nextGot[i].rec = NewRecord(lastRet.call.r, Flatten(lastRet.call.goa, lastRet.call.r.attrs))
            /\ lastRet.ret = nextGot[i].res
    /\ prodPc = "panicked" => GotVia("Handle") # {}

\* C6: a Handle call goes on to the channel send exactly when the level of
\* its record is at or above the notify level read in the call and h.closed
\* was read as false; only such a call has its bugRecord accepted, and only
\* accepted bugRecords are handed to h.notify; a call below the notify level
\* has passed its record to the next handler all the same.
C6_NotifyLevelGate ==
    /\ [](prodPc = "send" => (cur.r.level >= cur.nl /\ ~cur.sawClosed))
    /\ [](LatestReturned =>
            /\ lastRet.outcome = "skipped" <=> ~(lastRet.call.r.level >= lastRet.call.nl /\ ~lastRet.call.sawClosed)
            /\ lastRet.call.r.level < lastRet.call.nl =>
                /\ lastRet.id \notin accepted
                /\ delivered[lastRet.id] = 0
                /\ Len(nextGot) = 1
                /\ nextGot[1].rec.msg = lastRet.call.r.msg)
    /\ [](\A id \in 1..MaxCalls : delivered[id] > 0 => id \in accepted)
    /\ [][accepted' # accepted =>
            /\ prodPc = "send"
            /\ cur.r.level >= cur.nl
            /\ accepted' = accepted \cup {cur.id}]_vars
    /\ [][calls' # calls =>
            LET call == IF prodPc' = "send" THEN cur' ELSE lastRet'.call
            IN /\ call.nl = notifyLevel
               /\ call.sawClosed = closed
               /\ (prodPc' = "send") <=> (call.r.level >= notifyLevel /\ ~closed)]_vars

\* C6 witness: the latest Handle call, of level Warn, read the notify level
\* Error and went to the next handler only, after an earlier call was
\* accepted.
C6_Witness ==
    /\ LatestReturned
    /\ lastRet.outcome = "skipped"
    /\ lastRet.call.r.level = LevelWarn
    /\ lastRet.call.nl = LevelError
    /\ accepted # {}
    /\ Len(nextGot) = 1

\* ------------------------------------------------------------------------
\* Properties of Sanitize and accumulateRawData (SpecSan)
\* ------------------------------------------------------------------------

Filtered == OStr("[FILTERED]")

Recursion == OStr("[RECURSION]")

\* c and d are the same character, or the same letter in two cases.
SameLetter(c, d) == c = d \/ \E i \in 1..Len(Uppers) : {c, d} = {CharAt(Uppers, i), CharAt(Lowers, i)}

\* Some filter occurs in key, whatever the case of the letters.
KeyMatches(key, filters) ==
    \E f \in 1..Len(filters) : \E off \in 0..(Len(key) - Len(filters[f])) :
        \A j \in 1..Len(filters[f]) : SameLetter(CharAt(key, off + j), CharAt(filters[f], j))

\* red is plain with the value of every matching key replaced by
\* "[FILTERED]" and nothing else changed; a key that plain lacks is matching.
RECURSIVE RedactionOf(_, _, _)
RedactionOf(plain, red, filters) ==
    IF red[1] = "map"
    THEN /\ plain[1] = "map"
         /\ DOMAIN plain[2] \subseteq DOMAIN red[2]
         /\ \A k \in DOMAIN red[2] :
              IF KeyMatches(k, filters) THEN red[2][k] = Filtered
              ELSE k \in DOMAIN plain[2] /\ RedactionOf(plain[2][k], red[2][k], filters)
    ELSE IF red[1] = "seq"
    THEN /\ plain[1] = "seq"
         /\ Len(plain[2]) = Len(red[2])
         /\ \A i \in 1..Len(red[2]) : RedactionOf(plain[2][i], red[2][i], filters)
    ELSE red = plain

PlainRawData == AccumulateRawData(sanIn.heap, <<>>, NoRawData, "log", sanIn.attrs)

RECURSIVE SameValue(_, _, _, _)
SameValue(h, a, b, d) ==
    /\ Shallow(h[a]) = Shallow(h[b])
    /\ \/ d = 0
       \/ \A i \in 1..Len(h[a].elems) :
            LET j == IF h[a].kind = "map" THEN CHOOSE j \in 1..Len(h[b].keys) : h[b].keys[j] = h[a].keys[i] ELSE i
            IN SameValue(h, h[a].elems[i], h[b].elems[j], d - 1)

\* a is the very pointer, map or slice that p is.
SameReference(h, a, p) ==
    \/ a = p /\ h[a].kind \in {"ptr", "map", "slice"}
    \/ h[a].kind = "ptr" /\ h[p].kind = "ptr" /\ h[a].elems # <<>> /\ h[a].elems = h[p].elems

ResolvedName(f) == IF f.tag # "" THEN ParseTagName(f.tag) ELSE f.name

\* Field i of n is exported and no other exported field has its name.
OwnsName(n, i) ==
    /\ n.fields[i].exported
    /\ \A j \in 1..Len(n.fields) : (j # i /\ n.fields[j].exported) => ResolvedName(n.fields[j]) # ResolvedName(n.fields[i])

\* out is a rendering of the value at a, met under the values of path, in
\* which "[RECURSION]" stands only for a value equal to one of path, and
\* always for a reference that is one of path; a pointer is rendered as
\* what it points to.
RECURSIVE WellFlagged(_, _, _, _)
WellFlagged(h, a, out, path) ==
    LET n == h[a]
        below == path \cup {a}
        equalAbove == \E p \in path : SameValue(h, a, p, Len(h))
    IN IF \E p \in path : SameReference(h, a, p) THEN out = Recursion
       ELSE IF n.kind = "ptr" /\ n.elems # <<>>
       THEN (out = Recursion /\ equalAbove) \/ WellFlagged(h, n.elems[1], out, below)
       ELSE IF out = Recursion THEN equalAbove
       ELSE IF out[1] = "seq" THEN \A i \in 1..Len(n.elems) : WellFlagged(h, n.elems[i], out[2][i], below)
       ELSE IF out[1] = "map" /\ n.kind = "map"
       THEN \A i \in 1..Len(n.keys) :
               out[2][n.keys[i]] = Filtered \/ WellFlagged(h, n.elems[i], out[2][n.keys[i]], below)
       ELSE IF out[1] = "map" /\ n.kind = "struct"
       THEN \A i \in 1..Len(n.fields) :
               LET name == ResolvedName(n.fields[i])
               IN (OwnsName(n, i) /\ name \in DOMAIN out[2] /\ out[2][name] # Filtered) =>
                      WellFlagged(h, n.elems[i], out[2][name], below)
       ELSE TRUE

\* The addresses reached from those of as.
RECURSIVE Reach(_, _)
Reach(h, as) ==
    LET more == as \cup UNION {{h[a].elems[i] : i \in 1..Len(h[a].elems)} : a \in as}
    IN IF more = as THEN as ELSE Reach(h, more)

\* Some value reached from a contains itself.
Cyclic(h, a) == \E b \in Reach(h, {a}) : b \in Reach(h, {h[b].elems[i] : i \in 1..Len(h[b].elems)})

RECURSIVE HasLeaf(_, _)
HasLeaf(out, leaf) ==
    IF out[1] = "map" THEN \E k \in DOMAIN out[2] : HasLeaf(out[2][k], leaf)
    ELSE IF out[1] = "seq" THEN \E i \in 1..Len(out[2]) : HasLeaf(out[2][i], leaf)
    ELSE out = leaf

\* C8: Sanitize returns on a value that contains itself, with
\* "[RECURSION]" where the value comes back to a pointer, map or slice it is
\* inside of; "[RECURSION]" stands only for a value equal to one it is
\* inside of, so never in a value without a cycle, nor for a value equal to
\* a sibling or to one sanitized before: the same value in two attributes
\* is rendered the same in both.
C8_RecursionIsPathLocal ==
    /\ sanPc # "input" =>
          /\ WellFlagged(sanIn.heap, sanIn.root, sanOut.val, {})
          /\ Cyclic(sanIn.heap, sanIn.root) <=> HasLeaf(sanOut.val, Recursion)
    /\ (sanPc = "done" /\ sanIn \in CycleWorlds) =>
          /\ sanOut.raw.md["log"]["data"] = sanOut.val
          /\ sanOut.raw.md["group"]["data"] = sanOut.val

BrokenOut == OMap(MapPut(MapPut(<<>>, "Me", Recursion), "Data", OStr("ohai")))

\* C8 happens: a map holds a struct that points to itself, once under
\* "broken" and twice in the sequence under "array"; each of the three is
\* rendered with "[RECURSION]" for its pointer to itself, none is taken for
\* a recursion of its siblings.
C8_Witness ==
    /\ sanPc = "done"
    /\ sanIn.root = 1
    /\ sanIn.heap[1].keys = <<"array", "broken">>
    /\ Cyclic(sanIn.heap, 1)
    /\ sanOut.val = OMap(MapPut(MapPut(<<>>, "array", OSeq(<<BrokenOut, BrokenOut>>)), "broken", BrokenOut))

\* C9: a value whose type marshals itself to text, being no error, time or
\* Stringer, is sanitized to the text it marshals to whenever the
\* marshaling succeeds.
C9_TextMarshalerSanitizesToText ==
    sanPc # "input" =>
        LET n == sanIn.heap[sanIn.root]
        IN ("textmarshaler" \in n.impl /\ n.impl \cap {"error", "time", "stringer"} = {} /\ n.texts.marshalOk) =>
               sanOut.val = OStr(n.texts.marshal)

HasOmitEmpty(f) == f.tag # "" /\ OptsContains(ParseTagOpts(f.tag), "omitempty")

HasTagName(f) == f.tag # "" /\ ParseTagName(f.tag) # ""

\* The struct sanitized and what Sanitize made of field i on its own.
StructIn == sanIn.heap[sanIn.root]

FieldSanitized(i) == Sanitize(sanIn.heap, sanIn.filters, <<sanIn.root>>, StructIn.elems[i])

UnexportedNeverEmitted ==
    \A i \in 1..Len(StructIn.fields) :
        (~StructIn.fields[i].exported /\ \A j \in 1..Len(StructIn.fields) : StructIn.fields[j].exported => ResolvedName(StructIn.fields[j]) \notin {StructIn.fields[i].name, ResolvedName(StructIn.fields[i])})
            => {StructIn.fields[i].name, ResolvedName(StructIn.fields[i])} \cap DOMAIN sanOut.val[2] = {}

\* C10, as amended: of a struct, an exported field whose name, the tag name
\* if tagged, matches no filter is emitted under that name with its
\* sanitized value, except that with a tag name and omitempty it is omitted
\* when its sanitized value is the empty string; a field whose name matches
\* a filter is emitted as "[FILTERED]", omitempty or not; an unexported
\* field is never emitted.
C10_OmitEmptyUnlessRedacted ==
    (sanPc # "input" /\ sanIn \in StructWorlds) =>
        /\ UnexportedNeverEmitted
        /\ \A i \in 1..Len(StructIn.fields) :
              LET f == StructIn.fields[i]
                  name == ResolvedName(f)
                  out == sanOut.val[2]
              IN OwnsName(StructIn, i) =>
                    IF KeyMatches(name, sanIn.filters) THEN name \in DOMAIN out /\ out[name] = Filtered
                    ELSE IF HasTagName(f) /\ HasOmitEmpty(f) /\ FieldSanitized(i) = OStr("") THEN name \notin DOMAIN out
                    ELSE IF HasTagName(f) \/ ~HasOmitEmpty(f) THEN name \in DOMAIN out /\ out[name] = FieldSanitized(i)
                    ELSE TRUE

\* C10 happens: the field tagged "name,omitempty" holds the empty string and
\* is omitted, the untagged field beside it is emitted under its declared
\* name.
C10_Witness ==
    /\ sanPc = "done"
    /\ sanIn \in StructWorlds
    /\ sanIn.filters = <<"password">>
    /\ StructIn.fields = <<Field("Name", "name,omitempty", TRUE), Field("Last", "", TRUE)>>
    /\ sanIn.heap[2] = StringV("")
    /\ sanIn.heap[3] = StringV("y")
    /\ sanOut.val = OMap(MapPut(<<>>, "Last", OStr("y")))

\* C10, as stated: a field with a tag name and omitempty is emitted under
\* the tag name when its sanitized value is a non-empty string or no string,
\* and omitted when it is the empty string; a field without omitempty is
\* always emitted under its name; an unexported field is never emitted.
C10_OmitEmpty ==
    (sanPc # "input" /\ sanIn \in StructWorlds) =>
        /\ UnexportedNeverEmitted
        /\ \A i \in 1..Len(StructIn.fields) :
              LET f == StructIn.fields[i]
                  name == ResolvedName(f)
                  out == sanOut.val[2]
              IN OwnsName(StructIn, i) =>
                    IF HasTagName(f) /\ HasOmitEmpty(f)
                    THEN (name \in DOMAIN out) <=> (FieldSanitized(i) # OStr(""))
                    ELSE IF ~HasOmitEmpty(f) THEN name \in DOMAIN out
                    ELSE TRUE

\* C11: of a struct, an exported field whose tag name is "-" is rendered as
\* "[FILTERED]", whatever the filters, the empty list included.
C11_DashTagFiltered ==
    (sanPc # "input" /\ sanIn \in StructWorlds) =>
        \A i \in 1..Len(StructIn.fields) :
            (OwnsName(StructIn, i) /\ StructIn.fields[i].tag # "" /\ ParseTagName(StructIn.fields[i].tag) = "-") =>
                ("-" \in DOMAIN sanOut.val[2] /\ sanOut.val[2]["-"] = Filtered)

\* The value at a, read as a value that Sanitize returns.
RECURSIVE AsReturned(_, _)
AsReturned(h, a) ==
    IF h[a].kind = "slice" THEN OSeq([i \in 1..Len(h[a].elems) |-> AsReturned(h, h[a].elems[i])])
    ELSE IF h[a].kind = "map"
    THEN OMap([k \in {h[a].keys[i] : i \in 1..Len(h[a].keys)} |->
                  AsReturned(h, h[a].elems[CHOOSE i \in 1..Len(h[a].keys) : h[a].keys[i] = k])])
    ELSE OVal(h[a].type, h[a].val)

\* Some key of a map of out matches a filter.
RECURSIVE HasMatchingKey(_, _)
HasMatchingKey(out, filters) ==
    IF out[1] = "map" THEN \E k \in DOMAIN out[2] : KeyMatches(k, filters) \/ HasMatchingKey(out[2][k], filters)
    ELSE IF out[1] = "seq" THEN \E i \in 1..Len(out[2]) : HasMatchingKey(out[2][i], filters)
    ELSE FALSE

\* C12: what Sanitize returns, sanitized again under the same filters, is
\* returned as it is; and a value built only of bools, numbers, strings,
\* slices and maps keyed by strings, no key of which matches a filter, is
\* returned as it is the first time.
C12_SanitizeIdempotent ==
    /\ sanPc = "again" => sanOut.again = sanOut.val
    /\ (sanPc # "input" /\ sanIn \in PureWorlds /\ ~HasMatchingKey(AsReturned(sanIn.heap, sanIn.root), sanIn.filters)) =>
          sanOut.val = AsReturned(sanIn.heap, sanIn.root)

\* C12 happens: a map with a redacted key and a slice under a key that is
\* kept has been sanitized twice, and a value without any matching key has
\* been sanitized twice.
C12_Witness ==
    /\ sanPc = "again"
    /\ sanIn \in PureWorlds
    /\ sanIn.root = 1
    /\ sanIn.filters = <<"password">>
    /\ sanIn.heap[1].keys = <<"PassWord", "name">>
    /\ sanOut.val[2]["PassWord"] = Filtered
    /\ sanOut.val[2]["name"][1] = "seq"
    /\ sanOut.again = sanOut.val

\* ------------------------------------------------------------------------
\* Properties of logToBug and of the attrs Handle collects (SpecBug)
\* ------------------------------------------------------------------------

\* The last error met in a walk of attrs, oldest first and into the
\* groups: an address of the heap, or sofar when none is met.
RECURSIVE LastError(_, _)
LastError(attrs, sofar) ==
    IF attrs = <<>> THEN sofar
    ELSE LET a == Head(attrs)
         IN LastError(Tail(attrs), IF a[2] = "g" THEN LastError(a[3], sofar)
                                   ELSE IF "error" \in BugHeap[a[3]].impl THEN a[3] ELSE sofar)

\* The last error among the attrs Handle collected, 0 for none.
ErrForBugsnag == LastError(sanOut.finalAttrs, 0)

\* The error exposes StackFrames(), Callers() or StackTrace().
StackCapable(n) == \E c \in {"withBSStackFrames", "withCallers", "withPStackTrace"} : c \in n.impl

\* The frames runtime.Callers captured hold the PC of the record.
MarkerCaptured ==
    \E i \in 1..Len(sanIn.callers) : i <= MaxStackDepth /\ sanIn.callers[i] = sanIn.pc

\* C13: an error that exposes a stack capability comes back from
\* newErrorWithStack as the very same error, not wrapped, whatever the
\* message and the PC of the record are.
C13_StackErrorReturnedAsIs ==
    (sanPc = "bug" /\ ErrForBugsnag # 0 /\ StackCapable(BugHeap[ErrForBugsnag]))
        => /\ sanOut.bug.err.addr = ErrForBugsnag
           /\ ~sanOut.bug.err.wrapped
           /\ sanOut.bug.err.stack = <<>>

\* C13 witness: an error with StackTrace() only went through while the PC
\* of the record was among the frames captured.
C13_Witness ==
    /\ sanPc = "bug"
    /\ ErrForBugsnag # 0
    /\ BugHeap[ErrForBugsnag].impl = {"error", "withPStackTrace"}
    /\ MarkerCaptured
    /\ sanIn.msg = ""

\* The message of the error accumulateRawData found, or of the record
\* when it found none.
InputMessage == IF ErrForBugsnag = 0 THEN sanIn.msg ELSE BugHeap[ErrForBugsnag].texts.error

\* C14: the error of the bugRecord is never nil and its message is the one
\* of the error found, or the message of the record when none was found;
\* when the PC of the record is not among the frames captured, the error
\* (found, or made of the message) is returned as it is, not wrapped.
C14_NeverNilMessageKept ==
    sanPc = "bug" =>
        /\ ~sanOut.bug.err.isNil
        /\ sanOut.bug.err.msg = InputMessage
        /\ ~MarkerCaptured => (~sanOut.bug.err.wrapped /\ sanOut.bug.err.stack = <<>> /\ sanOut.bug.err.addr = ErrForBugsnag)

\* C14 witness: no error among the attrs, and the PC of the record lies
\* below more frames than are captured.
C14_Witness ==
    /\ sanPc = "bug"
    /\ ErrForBugsnag = 0
    /\ sanIn.msg = "oh no"
    /\ ~MarkerCaptured
    /\ \E i \in 1..Len(sanIn.callers) : sanIn.callers[i] = sanIn.pc
    /\ sanOut.bug.err.msg = "oh no"

\* The frames runtime.Callers captured: the innermost MaxStackDepth ones.
Captured == [i \in 1..(IF Len(sanIn.callers) < MaxStackDepth THEN Len(sanIn.callers) ELSE MaxStackDepth) |-> sanIn.callers[i]]

\* C15: for an error without a stack capability (or none) and a PC that is
\* among the frames captured, the error of the bugRecord is a wrapper whose
\* stack is the captured frames from the first frame equal to the PC on,
\* in their order and without the frames before it, and which unwraps to
\* the error found.
C15_WrapperStackIsSuffix ==
    (sanPc = "bug" /\ MarkerCaptured /\ (ErrForBugsnag = 0 \/ ~StackCapable(BugHeap[ErrForBugsnag])))
        => /\ sanOut.bug.err.wrapped
           /\ sanOut.bug.err.addr = ErrForBugsnag
           /\ sanOut.bug.err.msg = InputMessage
           /\ sanOut.bug.err.stack # <<>>
           /\ sanOut.bug.err.stack[1] = sanIn.pc
           /\ \E i \in 1..Len(Captured) :
                /\ \A j \in 1..(i - 1) : Captured[j] # sanIn.pc
                /\ SubSeq(Captured, 1, i - 1) \o sanOut.bug.err.stack = Captured

\* C15 witness: an errors.New error was wrapped while the PC of the record
\* was twice among the frames captured, below a frame of the handler.
C15_Witness ==
    /\ sanPc = "bug"
    /\ ErrForBugsnag # 0
    /\ BugHeap[ErrForBugsnag].type = "*errors.errorString"
    /\ sanIn.callers = <<91, 7, 8, 7, 9>>
    /\ sanIn.pc = 7
    /\ sanOut.bug.err.stack = <<7, 8, 7, 9>>

\* What the calls, oldest first, and then the record put together: the
\* attrs of a WithAttrs call come before all that follows, a WithGroup
\* call with a name wraps all that follows in a group of that name, one
\* without a name wraps nothing.
RECURSIVE Nested(_, _)
Nested(withs, attrs) ==
    IF withs = <<>> THEN attrs
    ELSE LET call == Head(withs)
             rest == Nested(Tail(withs), attrs)
         IN IF call[1] = "WithAttrs" THEN call[2] \o rest
            ELSE IF call[2] = "" THEN rest
            ELSE <<GroupAttr(call[2], rest)>>

\* The same, a group leaving out the groups without attrs directly in it.
RECURSIVE NestedNonEmpty(_, _)
NestedNonEmpty(withs, attrs) ==
    IF withs = <<>> THEN attrs
    ELSE LET call == Head(withs)
             rest == NestedNonEmpty(Tail(withs), attrs)
         IN IF call[1] = "WithAttrs" THEN call[2] \o rest
            ELSE IF call[2] = "" THEN rest
            ELSE <<GroupAttr(call[2], SelectSeq(rest, LAMBDA a : ~(a[2] = "g" /\ a[3] = <<>>)))>>

\* C16 as stated: the attrs Handle collects are the bound batches, oldest
\* first, then the attrs of the record, every WithGroup call with a name
\* wrapping all that was bound or logged after it in one group of that
\* name, and a WithGroup call without a name adding nothing.
C16_FlattenNests ==
    sanPc \in {"handled", "bug"} => sanOut.finalAttrs = Nested(sanIn.withs, sanIn.attrs)

\* C16 amended: the same, except that a group holds none of the groups
\* without attrs that would lie directly in it.
C16_FlattenNestsNonEmpty ==
    sanPc \in {"handled", "bug"} => sanOut.finalAttrs = NestedNonEmpty(sanIn.withs, sanIn.attrs)

\* C16 witness: a group, a batch with an empty group in it and a second
\* group were bound before a record with one attr.
C16_Witness ==
    /\ sanPc = "handled"
    /\ sanIn.withs = <<CallWithGroup("g1"), CallWithAttrs(<<GroupAttr("e", <<>>), LeafAttr("w2", 1)>>), CallWithGroup("g2")>>
    /\ sanIn.attrs = <<LeafAttr("k", 13)>>
    /\ sanOut.finalAttrs = <<GroupAttr("g1", <<LeafAttr("w2", 1), GroupAttr("g2", <<LeafAttr("k", 13)>>)>>)>>

\* The attrs that are no groups, with the tab each belongs to, as a walk
\* of attrs meets them, oldest first and into the groups.
RECURSIVE Entries(_, _)
Entries(tab, attrs) ==
    IF attrs = <<>> THEN <<>>
    ELSE LET a == Head(attrs)
         IN (IF a[2] = "g" THEN Entries(a[1], a[3]) ELSE <<[tab |-> tab, key |-> a[1], addr |-> a[3]]>>)
            \o Entries(tab, Tail(attrs))

FinalEntries == Entries("log", sanOut.finalAttrs)

\* The bugsnag.MetaData among the rawData.
MetaDataOf(bug) == bug.rawData[5].md

\* The value under tab and key of the metadata, <<"none">> for none.
MetaDataAt(md, tab, key) == IF tab \in DOMAIN md /\ key \in DOMAIN md[tab] THEN md[tab][key] ELSE <<"none">>

IsError(addr) == "error" \in BugHeap[addr].impl

\* The error of the bugRecord is the last one of the walk, and is made of
\* the message of the record if the walk meets none.
LatestErrorReported ==
    /\ sanOut.bug.err.addr = LastError(sanOut.finalAttrs, 0)
    /\ ~sanOut.bug.err.isNil
    /\ LastError(sanOut.finalAttrs, 0) = 0 => sanOut.bug.err.msg = sanIn.msg

\* C17 as stated: the error reported is the last error of the walk, or is
\* made of the message of the record if there is none, and every error met
\* is in the metadata as its message, under its tab and key.
C17_LatestErrorAllRecorded ==
    sanPc = "bug" =>
        /\ LatestErrorReported
        /\ \A i \in 1..Len(FinalEntries) :
              LET e == FinalEntries[i]
              IN IsError(e.addr) => MetaDataAt(MetaDataOf(sanOut.bug), e.tab, e.key) = OStr(BugHeap[e.addr].texts.error)

ReservedKeys == {"time", "level", "msg", "source"}

\* No later attr of the walk has the tab and key of the i-th, nor does
\* logToBug set that key in the "log" tab.
KeepsItsEntry(i) ==
    /\ \A j \in (i + 1)..Len(FinalEntries) : ~(FinalEntries[j].tab = FinalEntries[i].tab /\ FinalEntries[j].key = FinalEntries[i].key)
    /\ ~(FinalEntries[i].tab = "log" /\ FinalEntries[i].key \in ReservedKeys)

\* C17 amended: the same, an error being in the metadata as "[FILTERED]"
\* if its key matches a filter, and as its message otherwise, unless a
\* later attr of the same tab and key or a reserved field of the "log" tab
\* took its place.
C17_LatestErrorRecordedUnlessReplaced ==
    sanPc = "bug" =>
        /\ LatestErrorReported
        /\ \A i \in 1..Len(FinalEntries) :
              LET e == FinalEntries[i]
              IN (IsError(e.addr) /\ KeepsItsEntry(i)) =>
                    MetaDataAt(MetaDataOf(sanOut.bug), e.tab, e.key) =
                        IF KeyMatches(e.key, sanIn.filters) THEN Filtered ELSE OStr(BugHeap[e.addr].texts.error)

\* C17 witness: an error under the root, a later one in a group and a
\* third one under a key that matches a filter; the one of the filtered
\* key is reported, the first two are in the metadata as their messages.
C17_Witness ==
    /\ sanPc = "bug"
    /\ sanIn.attrs = <<LeafAttr("err", 2), GroupAttr("group1", <<LeafAttr("cause", 1), LeafAttr("myname", 17)>>), LeafAttr("password", 2)>>
    /\ sanOut.bug.err.addr = 2
    /\ MetaDataAt(MetaDataOf(sanOut.bug), "log", "err") = OStr("bang")
    /\ MetaDataAt(MetaDataOf(sanOut.bug), "group1", "cause") = OStr("boom")
    /\ MetaDataAt(MetaDataOf(sanOut.bug), "log", "password") = Filtered

\* The value of the last attr of the walk, from the from-th on, whose
\* value has the method of cap; before if there is none.
LastOfCapability(cap, from, before) ==
    LET met == {i \in from..Len(FinalEntries) : cap \in BugHeap[FinalEntries[i].addr].impl}
    IN IF met = {} THEN before
       ELSE BugHeap[FinalEntries[CHOOSE i \in met : \A j \in met : j <= i].addr].val

\* The places of the walk that hold a bugsnag.User.
FullUsers == {i \in 1..Len(FinalEntries) : BugHeap[FinalEntries[i].addr].type = "bugsnag.User"}

\* The bugsnag.User among the rawData, the zero User if there is none.
UserOf(bug) == IF Len(bug.rawData) >= 6 THEN bug.rawData[6].user ELSE NoUser

UserAttached(bug) == Len(bug.rawData) >= 6 /\ bug.rawData[6].is = "User"

\* C18: without a bugsnag.User among the attrs, each field of the user is
\* the value of the last ID, Name or Email of the walk, whatever came
\* before or after it for the other fields, and empty if there is none;
\* the user is among the rawData exactly if one of its fields is not empty.
C18_PartialUpdates ==
    (sanPc = "bug" /\ FullUsers = {}) =>
        LET user == [Id |-> LastOfCapability("bugsnagUserID", 1, ""),
                     Name |-> LastOfCapability("bugsnagUserName", 1, ""),
                     Email |-> LastOfCapability("bugsnagUserEmail", 1, "")]
        IN /\ UserAttached(sanOut.bug) <=> user # NoUser
           /\ UserOf(sanOut.bug) = user

\* C18 witness: an Email, an ID and a Name, in this order, gave a user of
\* all three.
C18_Witness ==
    /\ sanPc = "bug"
    /\ sanIn.attrs = <<LeafAttr("myemail", 9), LeafAttr("myid", 7), LeafAttr("myname", 8)>>
    /\ UserAttached(sanOut.bug)
    /\ UserOf(sanOut.bug) = [Id |-> "67890", Name |-> "john", Email |-> "j@a.com"]

\* The field of a bugsnag.User of the heap: 1 for Id, 2 for Name, 3 for
\* Email.
FieldOfUser(addr, f) == BugHeap[BugHeap[addr].elems[f]].val

\* A field of the user after the first n attrs of the walk, if a
\* bugsnag.User sets the field only where it has a value for it.
RECURSIVE MergedField(_, _, _)
MergedField(cap, f, n) ==
    IF n = 0 THEN ""
    ELSE LET node == BugHeap[FinalEntries[n].addr]
         IN IF node.type = "bugsnag.User"
            THEN (IF FieldOfUser(FinalEntries[n].addr, f) # "" THEN FieldOfUser(FinalEntries[n].addr, f)
                  ELSE MergedField(cap, f, n - 1))
            ELSE IF cap \in node.impl THEN node.val
            ELSE MergedField(cap, f, n - 1)

\* C19 as stated: a bugsnag.User among the attrs is merged into the user
\* found so far; a field set by an earlier attr that the bugsnag.User has
\* no value for keeps its earlier value.
C19_FullUserMerged ==
    (sanPc = "bug" /\ FullUsers # {}) =>
        UserOf(sanOut.bug) = [Id |-> MergedField("bugsnagUserID", 1, Len(FinalEntries)),
                              Name |-> MergedField("bugsnagUserName", 2, Len(FinalEntries)),
                              Email |-> MergedField("bugsnagUserEmail", 3, Len(FinalEntries))]

LastFullUser == CHOOSE i \in FullUsers : \A j \in FullUsers : j <= i

\* C19 amended: a bugsnag.User among the attrs takes the place of the user
\* found so far, its empty fields included; an ID, Name or Email that
\* comes after the last bugsnag.User sets its own field.
C19_FullUserReplaces ==
    (sanPc = "bug" /\ FullUsers # {}) =>
        LET full == FinalEntries[LastFullUser].addr
            user == [Id |-> LastOfCapability("bugsnagUserID", LastFullUser + 1, FieldOfUser(full, 1)),
                     Name |-> LastOfCapability("bugsnagUserName", LastFullUser + 1, FieldOfUser(full, 2)),
                     Email |-> LastOfCapability("bugsnagUserEmail", LastFullUser + 1, FieldOfUser(full, 3))]
        IN /\ UserOf(sanOut.bug) = user
           /\ UserAttached(sanOut.bug) <=> user # NoUser

\* C19 witness: a Name, then a bugsnag.User with an Id only, then an
\* Email: the user has the Id and the Email, and no Name.
C19_Witness ==
    /\ sanPc = "bug"
    /\ sanIn.attrs = <<LeafAttr("myname", 8), LeafAttr("myuser", 10), LeafAttr("myemail", 9)>>
    /\ UserOf(sanOut.bug) = [Id |-> "12345", Name |-> "", Email |-> "j@a.com"]

\* C20: the "log" tab of the metadata holds under time, level, msg and
\* source the time, the name of the level, the message and the source of
\* the record, whatever attrs of these keys the record and the handler
\* have under the root or in a group "log", and whatever the filters are.
C20_ReservedFields ==
    sanPc = "bug" =>
        /\ MetaDataAt(MetaDataOf(sanOut.bug), "log", "time") = OStr(FormatTime(sanIn.t))
        /\ MetaDataAt(MetaDataOf(sanOut.bug), "log", "level") = OStr(LevelString(sanIn.lvl))
        /\ MetaDataAt(MetaDataOf(sanOut.bug), "log", "msg") = OStr(sanIn.msg)
        /\ MetaDataAt(MetaDataOf(sanOut.bug), "log", "source") = OStr(SourceOf(sanIn.pc))

\* C20 witness: a handler with the group "log" and a record of the attrs
\* source and time, "time" being a filter.
C20_Witness ==
    /\ sanPc = "bug"
    /\ sanIn.withs = <<CallWithGroup("log")>>
    /\ sanIn.attrs = <<LeafAttr("source", 1), LeafAttr("time", 13)>>
    /\ sanIn.filters = <<"time">>
    /\ sanIn.pc = 7
    /\ MetaDataOf(sanOut.bug)["log"] =
          [k \in ReservedKeys |-> IF k = "time" THEN OStr("2023-09-29T13:00:09Z")
                                  ELSE IF k = "level" THEN OStr("WARN")
                                  ELSE IF k = "msg" THEN OStr("careful")
                                  ELSE OStr("main.run:107")]

\* The keys the attrs of the walk have in a tab.
KeysOfTab(tab) == {FinalEntries[i].key : i \in {i \in 1..Len(FinalEntries) : FinalEntries[i].tab = tab}}

\* C21: the metadata has the tab "log" and one tab for every group that
\* holds an attr that is no group, at whatever depth the group lies; a tab
\* holds the keys of the attrs that lie directly in a group of its name
\* (the "log" tab those under the root and the fields logToBug sets), and
\* no others, so no tab holds a group.
C21_OneTabPerGroup ==
    sanPc = "bug" =>
        LET md == MetaDataOf(sanOut.bug)
        IN /\ DOMAIN md = {"log"} \cup {FinalEntries[i].tab : i \in 1..Len(FinalEntries)}
           /\ \A tab \in DOMAIN md : DOMAIN md[tab] = KeysOfTab(tab) \cup (IF tab = "log" THEN ReservedKeys ELSE {})

\* C21 witness: an attr in a group in two groups of the handler, the
\* innermost of the name of the outermost: the metadata has a tab for
\* each name, none within the other.
C21_Witness ==
    /\ sanPc = "bug"
    /\ sanIn.withs = <<CallWithGroup("g1"), CallWithGroup("g2")>>
    /\ sanIn.attrs = <<LeafAttr("err", 2), GroupAttr("g1", <<LeafAttr("myid", 7)>>)>>
    /\ DOMAIN MetaDataOf(sanOut.bug) = {"log", "g1", "g2"}
    /\ DOMAIN MetaDataOf(sanOut.bug)["g1"] = {"myid"}
    /\ DOMAIN MetaDataOf(sanOut.bug)["g2"] = {"err"}
    /\ DOMAIN MetaDataOf(sanOut.bug)["log"] = ReservedKeys

\* ------------------------------------------------------------------------
\* Properties of the life of the handler (SpecLive)
\* ------------------------------------------------------------------------

\* Spec with the scheduling of Go: a goroutine that can take a step takes
\* it in the end, and so does the call of Close.
SpecLive ==
    /\ Spec
    /\ WF_vars(StartNotifierWorkers)
    /\ \A w \in Workers : WF_vars(WorkerRecv(w)) /\ WF_vars(\E res \in NotifyResults : WorkerNotify(w, res))
    /\ WF_vars(CloseChan)
    /\ WF_vars(CloseWait)

\* Every worker has left its loop.
Drained ==
    /\ closed
    /\ starterPc = "done"
    /\ \A w \in 1..workerCount : workerPc[w] = "exited"

\* 1 for Open, 2 for Closing, 3 for Drained.
Lifecycle == IF ~closed THEN 1 ELSE IF Drained THEN 3 ELSE 2

\* The handler never goes back to an earlier state of its life.
LifecycleMonotone == [][Lifecycle' >= Lifecycle]_vars

\* Once h.closed is set, no bugRecord is accepted by the channel.
NoEnqueueOnceClosed == [][closed => accepted' = accepted]_vars

\* Once Close is called, every worker leaves its loop in the end.
DrainedInTheEnd == (closePc # "idle") ~> Drained

\* With every worker gone the channel is closed and empty, and no
\* bugRecord is in the hands of a worker.
DrainedIsEmpty == [](Drained => (chClosed /\ bugsCh = <<>> /\ \A w \in Workers : workerBug[w] = NoCall))

\* C22: the life of the handler goes from Open to Closing to Drained and
\* never back; from the moment h.closed is set no bugRecord is accepted,
\* while the workers take what is on the channel; once Close is called
\* Drained is reached in the end, and then the channel is empty and every
\* worker has exited.
C22_LifecycleMonotone ==
    /\ LifecycleMonotone
    /\ NoEnqueueOnceClosed
    /\ DrainedInTheEnd
    /\ DrainedIsEmpty

\* ------------------------------------------------------------------------
\* Properties of the workers and of the handlers derived (Spec)
\* ------------------------------------------------------------------------

\* Where the bugRecord of a Handle call is: how often on the channel and
\* in how many workers' hands.
OnChannel(id) == Cardinality({i \in 1..Len(bugsCh) : bugsCh[i].id = id})

InHands(id) == Cardinality({w \in Workers : workerBug[w].id = id})

\* A bugRecord is in one place at most, is handed to h.notify once at
\* most, and only if the channel accepted it.
DeliveredOnceAtMost ==
    \A id \in 1..MaxCalls :
        /\ OnChannel(id) + InHands(id) + delivered[id] <= 1
        /\ OnChannel(id) + InHands(id) + delivered[id] = 1 => id \in accepted
        /\ \A w \in Workers : (workerPc[w] = "notify") <=> (workerBug[w] # NoCall)

\* A step that ends a call of h.notify hands the bugRecord over and takes
\* the worker back to the channel, whatever NotifySync returned; no step
\* takes a bugRecord handed over back to the channel or to a worker.
WorkerGoesOn ==
    \A w \in Workers :
        (workerPc[w] = "notify" /\ workerPc'[w] # "notify") =>
            /\ workerPc'[w] = "recv"
            /\ delivered'[workerBug[w].id] = delivered[workerBug[w].id] + 1
            /\ bugsCh' = bugsCh
            /\ workerWG' = workerWG

\* C23: with one worker or more, a bugRecord the channel accepted is taken
\* by one worker and handed to h.notify once at most, whether NotifySync
\* fails or not; nothing but accepted bugRecords is handed over; and the
\* worker is back at the channel after every call of h.notify.
C23_DeliveredAtMostOnce == [](DeliveredOnceAtMost) /\ [][WorkerGoesOn]_vars

\* C23 witness: two workers each hold a bugRecord while a third bugRecord
\* has been handed over.
C23_Witness ==
    /\ workerCount = 2
    /\ workerPc[1] = "notify" /\ workerPc[2] = "notify"
    /\ workerBug[1].id # workerBug[2].id
    /\ \E id \in 1..MaxCalls : delivered[id] = 1

\* ------------------------------------------------------------------------
\* Properties of the handlers derived and of their goa lists (SpecGoa)
\* ------------------------------------------------------------------------

\* The WithGroup and WithAttrs calls that led from the handler of
\* NewHandler to h, oldest first.
RECURSIVE PathOf(_)
PathOf(h) == IF sanOut.handlers[h].parent = 0 THEN <<>> ELSE Append(PathOf(sanOut.handlers[h].parent), sanOut.handlers[h].call)

\* The goa list of handler h, node by node, as it is read in the state.
GoaOfHandler(out, h) == GoaOf(out.nodes, out.arrays, out.handlers[h].goa)

\* The list of a derived handler is the node of its call before the list
\* of the handler it was derived from.
ExtendsParent(h) ==
    LET call == sanOut.handlers[h].call
        own == IF call[1] = "WithGroup" THEN [group |-> call[2], attrs |-> <<>>] ELSE [group |-> "", attrs |-> call[2]]
    IN GoaOfHandler(sanOut, h) = <<own>> \o GoaOfHandler(sanOut, sanOut.handlers[h].parent)

\* No step changes a handler, its list or a batch of its list.
HandlersKept ==
    sanPc = "goa" =>
        \A h \in 1..Len(sanOut.handlers) :
            /\ sanOut'.handlers[h] = sanOut.handlers[h]
            /\ GoaOfHandler(sanOut', h) = GoaOfHandler(sanOut, h)

\* Every handler has the list of its own calls; the attrs of every Handle
\* call, at the call and ever after, are those of the calls that derived
\* its handler and of its record.
OwnAnnotationsOnly ==
    sanPc = "goa" =>
        /\ \A h \in 2..Len(sanOut.handlers) : ExtendsParent(h)
        /\ \A b \in 1..Len(sanOut.bugs) :
              SliceContent(sanOut.arrays, sanOut.bugs[b].finalAttrs) = NestedNonEmpty(PathOf(sanOut.bugs[b].h), sanOut.bugs[b].attrs)

\* C24: WithAttrs and WithGroup make a new handler and leave the list of
\* the receiver as it is; Handle changes no list and no batch; a handler
\* sees the attrs of its own derivation only, so that the attrs collected
\* for a record are those of the handler's calls and of the record, on
\* every Handle call and whatever other handlers do afterwards.
C24_BoundStateImmutable == [](OwnAnnotationsOnly) /\ [][HandlersKept]_vars

\* C24 witness: two handlers derived from the same handler, one by a
\* batch whose slice has capacity left, and a Handle call on each.
C24_Witness ==
    /\ sanPc = "goa"
    /\ \E h1, h2 \in 2..Len(sanOut.handlers) :
          /\ h1 # h2
          /\ sanOut.handlers[h1].parent = sanOut.handlers[h2].parent
          /\ sanOut.handlers[h1].call = CallWithAttrs(<<LeafAttr("w1", "a")>>)
          /\ \E b1, b2 \in 1..Len(sanOut.bugs) :
                /\ sanOut.bugs[b1].h = h1 /\ sanOut.bugs[b2].h = h2
                /\ sanOut.bugs[b1].attrs # <<>>
                /\ b1 < b2

\* Every handler has the channel, the WaitGroup and the atomic.Bool of the
\* handler NewHandler returned (SpecGoa).
HandlersShareOneQueue ==
    sanPc = "goa" =>
        \A h \in 1..Len(sanOut.handlers) :
            /\ sanOut.handlers[h].bugsCh = NewHandler.bugsCh
            /\ sanOut.handlers[h].workerWG = NewHandler.workerWG
            /\ sanOut.handlers[h].closed = NewHandler.closed

\* ------------------------------------------------------------------------
\* Properties of the handlers that share the channel (Spec)
\* ------------------------------------------------------------------------

\* The bugRecord of a Handle call is handed over only by a worker the
\* goroutine of NewHandler started, whichever handler the call was on.
DrainedBySameWorkers ==
    \A w \in Workers : workerBug[w] # NoCall => (starterPc = "done" /\ w <= workerCount /\ workerBug[w].id \in accepted)

\* Once Close has set h.closed, a Handle call on the handler with the list
\* goa has no bugRecord accepted.
StopsEnqueuing(goa) == (closed /\ prodPc = "send" /\ cur.goa = goa) => accepted' = accepted

\* The part about the derived handler alone.
DerivedStopsEnqueuing == [][StopsEnqueuing(DerivedGoa)]_vars

\* C25: the handlers derived by WithAttrs and WithGroup use the channel,
\* the workers and the closed flag NewHandler made: a bugRecord sent
\* through the handler of NewHandler or a derived one is taken by those
\* workers, and once Close has been called no Handle call on either has
\* its bugRecord accepted.
C25_DerivedHandlersShare ==
    /\ [](DrainedBySameWorkers)
    /\ [][StopsEnqueuing(RootGoa)]_vars
    /\ DerivedStopsEnqueuing

\* ------------------------------------------------------------------------
\* Properties of the values under keys that match a filter (SpecBug)
\* ------------------------------------------------------------------------

IdentityCapabilities == {"bugsnagUserID", "bugsnagUserName", "bugsnagUserEmail"}

IsFullUser(addr) == BugHeap[addr].type = "bugsnag.User"

IsIdentity(addr) == IsFullUser(addr) \/ BugHeap[addr].impl \cap IdentityCapabilities # {}

\* The places of the walk whose key matches a filter and whose value is an
\* error or a value of the user.
RedactedSpecials ==
    {i \in 1..Len(FinalEntries) :
        /\ KeyMatches(FinalEntries[i].key, sanIn.filters)
        /\ IsError(FinalEntries[i].addr) \/ IsIdentity(FinalEntries[i].addr)}

\* The i-th value of the walk is in the bugRecord outside the metadata: an
\* error that no later error follows is the error reported, with its
\* message; an ID, Name or Email that no later value of the same field and
\* no later bugsnag.User follows is that field of the user; a bugsnag.User
\* that no later value of the user follows is the user.
TakenOutsideMetaData(i) ==
    LET addr == FinalEntries[i].addr
        later == (i + 1)..Len(FinalEntries)
        field(cap, got) ==
            (cap \in BugHeap[addr].impl /\ \A j \in later : ~IsFullUser(FinalEntries[j].addr) /\ cap \notin BugHeap[FinalEntries[j].addr].impl)
                => (got = BugHeap[addr].val /\ (got # "" => UserAttached(sanOut.bug)))
    IN /\ (IsError(addr) /\ \A j \in later : ~IsError(FinalEntries[j].addr))
            => (sanOut.bug.err.addr = addr /\ sanOut.bug.err.msg = BugHeap[addr].texts.error)
       /\ ~IsError(addr) =>
            /\ field("bugsnagUserID", UserOf(sanOut.bug).Id)
            /\ field("bugsnagUserName", UserOf(sanOut.bug).Name)
            /\ field("bugsnagUserEmail", UserOf(sanOut.bug).Email)
            /\ (IsFullUser(addr) /\ \A j \in later : ~IsIdentity(FinalEntries[j].addr))
                  => (UserAttached(sanOut.bug) /\ UserOf(sanOut.bug) = [Id |-> FieldOfUser(addr, 1), Name |-> FieldOfUser(addr, 2), Email |-> FieldOfUser(addr, 3)])

\* C26 as stated: an error or a value of the user under a key that matches
\* a filter has "[FILTERED]" as its metadata entry under that key, and is
\* still taken as the error reported or into the user.
C26_ExtractedAndFiltered ==
    sanPc = "bug" =>
        \A i \in RedactedSpecials :
            /\ MetaDataAt(MetaDataOf(sanOut.bug), FinalEntries[i].tab, FinalEntries[i].key) = Filtered
            /\ TakenOutsideMetaData(i)

\* The i-th attr of the walk has one of the keys logToBug sets in the "log"
\* tab after the walk.
UnderReservedField(i) == FinalEntries[i].tab = "log" /\ FinalEntries[i].key \in ReservedKeys

\* C26 amended: the same, the metadata entry being "[FILTERED]" unless the
\* key is one of the fields time, level, msg, source of the "log" tab,
\* which then holds the field of the record.
C26_ExtractedAndFilteredUnlessReserved ==
    sanPc = "bug" =>
        \A i \in RedactedSpecials :
            /\ ~UnderReservedField(i) => MetaDataAt(MetaDataOf(sanOut.bug), FinalEntries[i].tab, FinalEntries[i].key) = Filtered
            /\ TakenOutsideMetaData(i)

\* C26 witness: an ID and an error under keys that match the filter "pass";
\* both entries of the metadata are "[FILTERED]", the error is the one
\* reported and the ID is the Id of the user.
C26_Witness ==
    /\ sanPc = "bug"
    /\ sanIn.attrs = <<LeafAttr("PassID", 7), LeafAttr("password", 2)>>
    /\ sanIn.filters = <<"pass", "msg">>
    /\ MetaDataAt(MetaDataOf(sanOut.bug), "log", "PassID") = Filtered
    /\ MetaDataAt(MetaDataOf(sanOut.bug), "log", "password") = Filtered
    /\ sanOut.bug.err.addr = 2
    /\ sanOut.bug.err.msg = "bang"
    /\ UserOf(sanOut.bug).Id = "67890"

====
